---- MODULE Spec2Model ----
(***************************************************************************)
(* VL6180X driver: the Configuration model (config.rs), the measurement    *)
(* acquisition engine (read_measurements.rs), the device status operations *)
(* (device_status.rs) and the initialization sequencer (init.rs) as a      *)
(* state machine.                                                          *)
(*                                                                         *)
(* Every bus transaction of an async handler is one step: the handler's    *)
(* position is pc, and the bus transactions it issued since it was called  *)
(* are recorded in busLog.                                                 *)
(***************************************************************************)
EXTENDS Integers, Sequences, FiniteSets, TLC

VARIABLES
    config,     \* the Config record (config.rs:41-67)
    result,     \* outcome of the last finished call: [kind, val]
    lastCall,   \* the last operation called and its argument: [op, arg]
    ncalls,     \* number of Config setter calls made so far
    pc,         \* position of the running driver operation ("idle": none)
    op,         \* the driver operation that is running or ran last
    c,          \* the poll counter `c` of a blocking read (u16)
    status,     \* the result-status byte fetched by get_*_val_and_status
    busLog,     \* bus transactions issued by the current call: <<kind, reg, val, ok>>
    rangeEvt,   \* device: a range event is latched in the interrupt status
    ambEvt,     \* device: an ambient event is latched in the interrupt status
    scalerReg   \* device: content of the 16-bit RANGE_SCALER register

vars == <<config, result, lastCall, ncalls, pc, op, c, status, busLog, rangeEvt, ambEvt,
          scalerReg>>
driverVars == <<pc, op, c, status, busLog, rangeEvt, ambEvt, scalerReg>>

(***************************************************************************)
(* Bounds of the model                                                     *)
(***************************************************************************)
\* Config setter calls explored from Config::new() in SpecConfig.
MaxCalls == 3
\* Largest poll budget a driver is constructed with in the driver specifications.
MaxBudget == 3
\* Interrupt-status reads explored within one blocking read.
MaxReads == 5
\* Scaler inputs 0..MaxScalerInput (and 255) are tried in SpecScaler.
MaxScalerInput == 17
\* Reads of the fresh-out-of-reset flag explored within one boot wait.
MaxBootReads == 2

(***************************************************************************)
(* Machine arithmetic                                                      *)
(***************************************************************************)
\* u16 has 2^16 values (poll_max_loop and the poll counter compared with it).
U16Mod == 65536
\* 0.9_f32 = F32_0_9 / 2^24   (bit pattern 0x3F666666)
F32_0_9 == 15099494
\* 1.1_f32 = F32_1_1 / 2^23   (bit pattern 0x3F8CCCCD)
F32_1_1 == 9227469

RECURSIVE Pow2(_)
Pow2(n) == IF n <= 0 THEN 1 ELSE 2 * Pow2(n - 1)

\* Number of bits of n >= 1 (BitLen(1) = 1, BitLen(255) = 8).
RECURSIVE BitLen(_)
BitLen(n) == IF n <= 0 THEN 0 ELSE 1 + BitLen(n \div 2)

\* <<floor(q * 2^k), remainder>> of a quotient given as <<q, r>> over d,
\* doubling one bit at a time so that no intermediate exceeds 32 bits.
RECURSIVE ShlDiv(_, _, _, _)
ShlDiv(q, r, k, d) ==
    IF k = 0 THEN <<q, r>>
    ELSE ShlDiv(2 * q + ((2 * r) \div d), (2 * r) % d, k - 1, d)

\* `x as u16` of the f32 nearest to the exact quotient Q + R/D (1 <= Q < 2^23):
\* the f32 spacing at the quotient is 2^(e-23), e = BitLen(Q) - 1, so rounding to
\* nearest reaches the integer Q + 1 exactly when (D - R)/D <= 2^(e-24);
\* the cast then truncates.
F32RoundTrunc(Q, R, D) ==
    IF D - R <= D \div Pow2(25 - BitLen(Q)) THEN Q + 1 ELSE Q

\* The 24-bit significand m and exponent shift s of (p as f32) * 1.1_f32,
\* i.e. the product is m * 2^(s - 23), rounded to nearest even.
F32MulBy1_1(p) ==
    LET k    == BitLen(p)
        hi   == p * (F32_1_1 \div Pow2(k)) + ((p * (F32_1_1 % Pow2(k))) \div Pow2(k))
        s    == IF hi >= Pow2(23) THEN k ELSE k - 1
        fl   == p * (F32_1_1 \div Pow2(s)) + ((p * (F32_1_1 % Pow2(s))) \div Pow2(s))
        rem2 == 2 * ((p * (F32_1_1 % Pow2(s))) % Pow2(s))
        up   == rem2 > Pow2(s) \/ (rem2 = Pow2(s) /\ fl % 2 = 1)
    IN  <<IF up THEN fl + 1 ELSE fl, s>>

\* ((x as f32) / 0.9) as u16, for 1 <= x < 2^7
F32DivBy0_9AsU16(x) ==
    LET qr == ShlDiv(0, x, 24, F32_0_9)
    IN  F32RoundTrunc(qr[1], qr[2], F32_0_9)

\* ((p as f32 * 1.1) / 0.9) as u16, for 1 <= p < 2^16
F32Mul1_1DivBy0_9AsU16(p) ==
    LET ms == F32MulBy1_1(p)
        qr == ShlDiv(ms[1] \div F32_0_9, ms[1] % F32_0_9, ms[2] + 1, F32_0_9)
    IN  F32RoundTrunc(qr[1], qr[2], F32_0_9)

(***************************************************************************)
(* Results                                                                 *)
(***************************************************************************)
Ok(v) == [kind |-> "Ok", val |-> v]
Err(kind, v) == [kind |-> kind, val |-> v]
NoResult == [kind |-> "None", val |-> 0]
NoCall == [op |-> "none", arg |-> 0]

(***************************************************************************)
(* Bit and overflow arithmetic on unsigned integers                        *)
(***************************************************************************)
\* a & b and a | b on non-negative integers, bit by bit.
RECURSIVE BitAnd(_, _)
BitAnd(a, b) ==
    IF a = 0 \/ b = 0 THEN 0
    ELSE 2 * BitAnd(a \div 2, b \div 2) + (IF a % 2 = 1 /\ b % 2 = 1 THEN 1 ELSE 0)

RECURSIVE BitOr(_, _)
BitOr(a, b) ==
    IF a = 0 THEN b
    ELSE IF b = 0 THEN a
    ELSE 2 * BitOr(a \div 2, b \div 2) + (IF a % 2 = 1 \/ b % 2 = 1 THEN 1 ELSE 0)

\* `x as u8` of a u16
AsU8(x) == x % 256

\* The result of an unsigned `x - 1`; Overflow stands for 0 - 1, which panics
\* in a build with overflow checks and wraps to the type's maximum without.
Overflow == -1
SubOne(x) == IF x >= 1 THEN x - 1 ELSE Overflow

(***************************************************************************)
(* Configuration model (config.rs)                                         *)
(***************************************************************************)
\* enum discriminants of RangeInterruptMode and AmbientInterruptMode
RangeInterruptMode ==
    [Disabled |-> 0, LevelLow |-> 1, LevelHigh |-> 2, OutOfWindow |-> 3, NewSampleReady |-> 4]
AmbientInterruptMode ==
    [Disabled |-> 0, LevelLow |-> 8, LevelHigh |-> 16, OutOfWindow |-> 24, NewSampleReady |-> 32]

\* Config::new()
ConfigNew ==
    [ address |-> 41,
      ptp_offset |-> 0,
      poll_max_loop |-> 500,
      range_scaling |-> 1,
      ambient_scaling |-> 1,
      readout_averaging_period_multiplier |-> 48,
      range_max_convergence_time |-> 49,
      range_inter_measurement_period |-> 100,
      range_vhv_recalibration_rate |-> 255,
      ambient_analogue_gain_level |-> 0,
      ambient_integration_period |-> 100,
      ambient_inter_measurement_period |-> 500,
      range_interrupt_mode |-> RangeInterruptMode.NewSampleReady,
      ambient_interrupt_mode |-> AmbientInterruptMode.NewSampleReady,
      range_low_interrupt_threshold |-> 0,
      range_high_interrupt_threshold |-> 255,
      ambient_low_interrupt_threshold |-> 0,
      ambient_high_interrupt_threshold |-> 65535 ]

ConfigFields == DOMAIN ConfigNew

\* A setter that always succeeds: stores the value.
Store(name, field, v) ==
    /\ config' = [config EXCEPT ![field] = v]
    /\ result' = Ok(0)
    /\ lastCall' = [op |-> name, arg |-> v]
    /\ UNCHANGED driverVars

\* Mutant of Validate: the store happens before the check.
Validate_StoreBeforeCheck(name, field, v, invalid) ==
    /\ config' = [config EXCEPT ![field] = v]
    /\ result' = IF invalid THEN Err("InvalidConfigurationValue", v) ELSE Ok(0)
    /\ lastCall' = [op |-> name, arg |-> v]
    /\ UNCHANGED driverVars

\* A validating setter: Err(InvalidConfigurationValue(v)) and an early return
\* when `invalid`, the store otherwise.
Validate(name, field, v, invalid) ==
    /\ IF invalid
       THEN /\ result' = Err("InvalidConfigurationValue", v)
            /\ config' = config
       ELSE /\ config' = [config EXCEPT ![field] = v]
            /\ result' = Ok(0)
    /\ lastCall' = [op |-> name, arg |-> v]
    /\ UNCHANGED driverVars

set_poll_max_loop(max_loop) ==
    Store("set_poll_max_loop", "poll_max_loop", max_loop)

set_range_max_convergence_time_invalid(time_ms) ==
    time_ms < 2 \/ time_ms > 63

set_range_max_convergence_time(time_ms) ==
    Validate("set_range_max_convergence_time", "range_max_convergence_time", time_ms,
             set_range_max_convergence_time_invalid(time_ms))

\* let min_eq_val = ((self.range_max_convergence_time + 5) as f32 / 0.9) as u16;
\* let min = if 10 < min_eq_val { min_eq_val } else { 10 };
range_inter_measurement_period_min(cfg) ==
    LET min_eq_val == F32DivBy0_9AsU16(cfg.range_max_convergence_time + 5)
    IN  IF 10 < min_eq_val THEN min_eq_val ELSE 10

\* Mutant of set_range_inter_measurement_period_invalid: `<=` for `<`.
set_range_inter_measurement_period_invalid_OffByOne(cfg, time_ms) ==
    \/ time_ms % 10 # 0
    \/ time_ms <= range_inter_measurement_period_min(cfg)
    \/ time_ms > 2550

set_range_inter_measurement_period_invalid(cfg, time_ms) ==
    \/ time_ms % 10 # 0
    \/ time_ms < range_inter_measurement_period_min(cfg)
    \/ time_ms > 2550

set_range_inter_measurement_period(time_ms) ==
    Validate("set_range_inter_measurement_period", "range_inter_measurement_period", time_ms,
             set_range_inter_measurement_period_invalid(config, time_ms))

set_readout_averaging_period_multiplier(time_ms) ==
    Store("set_readout_averaging_period_multiplier",
          "readout_averaging_period_multiplier", time_ms)

set_vhv_recalibration_rate(rate_vhv) ==
    Store("set_vhv_recalibration_rate", "range_vhv_recalibration_rate", rate_vhv)

set_ambient_result_scaler_invalid(scaler) ==
    scaler < 1 \/ scaler > 15

set_ambient_result_scaler(scaler) ==
    Validate("set_ambient_result_scaler", "ambient_scaling", scaler,
             set_ambient_result_scaler_invalid(scaler))

\* Mutant of set_range_result_scaler_invalid: the lower bound is not checked.
set_range_result_scaler_invalid_NoLowerBound(scaler) ==
    scaler > 3

set_range_result_scaler_invalid(scaler) ==
    scaler < 1 \/ scaler > 3

set_range_result_scaler(scaler) ==
    Validate("set_range_result_scaler", "range_scaling", scaler,
             set_range_result_scaler_invalid(scaler))

\* Mutant of set_ambient_analogue_gain_level_invalid: the bound is one too high.
set_ambient_analogue_gain_level_invalid_OffByOne(level) ==
    level > 8

set_ambient_analogue_gain_level_invalid(level) ==
    level > 7

set_ambient_analogue_gain_level(level) ==
    Validate("set_ambient_analogue_gain_level", "ambient_analogue_gain_level", level,
             set_ambient_analogue_gain_level_invalid(level))

set_ambient_integration_period_invalid(time_ms) ==
    time_ms < 1 \/ time_ms > 256

set_ambient_integration_period(time_ms) ==
    Validate("set_ambient_integration_period", "ambient_integration_period", time_ms,
             set_ambient_integration_period_invalid(time_ms))

\* let min_eq_val = ((self.ambient_integration_period as f32 * 1.1) / 0.9) as u16;
\* let min = if 10 < min_eq_val { min_eq_val } else { 10 };
ambient_inter_measurement_period_min(cfg) ==
    LET min_eq_val == F32Mul1_1DivBy0_9AsU16(cfg.ambient_integration_period)
    IN  IF 10 < min_eq_val THEN min_eq_val ELSE 10

set_ambient_inter_measurement_period_invalid(cfg, time_ms) ==
    \/ time_ms % 10 # 0
    \/ time_ms < ambient_inter_measurement_period_min(cfg)
    \/ time_ms > 2560

set_ambient_inter_measurement_period(time_ms) ==
    Validate("set_ambient_inter_measurement_period", "ambient_inter_measurement_period",
             time_ms, set_ambient_inter_measurement_period_invalid(config, time_ms))

set_range_interrupt_mode(interrupt_mode) ==
    Store("set_range_interrupt_mode", "range_interrupt_mode", interrupt_mode)

set_range_low_interrupt_threshold(threshold) ==
    Store("set_range_low_interrupt_threshold", "range_low_interrupt_threshold", threshold)

set_range_high_interrupt_threshold(threshold) ==
    Store("set_range_high_interrupt_threshold", "range_high_interrupt_threshold", threshold)

set_ambient_interrupt_mode(interrupt_mode) ==
    Store("set_ambient_interrupt_mode", "ambient_interrupt_mode", interrupt_mode)

set_ambient_low_interrupt_threshold(threshold) ==
    Store("set_ambient_low_interrupt_threshold", "ambient_low_interrupt_threshold", threshold)

set_ambient_high_interrupt_threshold(threshold) ==
    Store("set_ambient_high_interrupt_threshold", "ambient_high_interrupt_threshold", threshold)

set_i2c_address(address) ==
    Store("set_i2c_address", "address", address)

(***************************************************************************)
(* Specification of the Configuration: setter calls on Config::new()       *)
(***************************************************************************)
\* The device's RANGE_SCALER register after power-on: 1x scaling.
RANGE_SCALER_power_on == 253

\* No driver exists yet: its variables are at rest.
DriverAtRest ==
    /\ pc = "idle"
    /\ op = "none"
    /\ c = 0
    /\ status = 0
    /\ busLog = <<>>
    /\ rangeEvt = FALSE
    /\ ambEvt = FALSE
    /\ scalerReg = RANGE_SCALER_power_on

InitConfig ==
    /\ config = ConfigNew
    /\ result = NoResult
    /\ lastCall = NoCall
    /\ ncalls = 0
    /\ DriverAtRest

\* One more setter call, while the bound allows.
Counted ==
    /\ ncalls < MaxCalls
    /\ ncalls' = ncalls + 1

NextConfig ==
    \/ \E v \in {0} : Counted /\ set_poll_max_loop(v)
    \/ \E v \in {1, 2, 63, 64} : Counted /\ set_range_max_convergence_time(v)
    \/ \E v \in {0, 15, 60, 2550, 2560} : Counted /\ set_range_inter_measurement_period(v)
    \/ \E v \in {0} : Counted /\ set_readout_averaging_period_multiplier(v)
    \/ \E v \in {0} : Counted /\ set_vhv_recalibration_rate(v)
    \/ \E v \in {0, 15, 16} : Counted /\ set_ambient_result_scaler(v)
    \/ \E v \in {0, 3, 4} : Counted /\ set_range_result_scaler(v)
    \/ \E v \in {7, 8} : Counted /\ set_ambient_analogue_gain_level(v)
    \/ \E v \in {0, 17, 256, 257} : Counted /\ set_ambient_integration_period(v)
    \/ \E v \in {0, 15, 20, 2550, 2560, 2570} :
           Counted /\ set_ambient_inter_measurement_period(v)
    \/ \E v \in {RangeInterruptMode.Disabled} : Counted /\ set_range_interrupt_mode(v)
    \/ \E v \in {10} : Counted /\ set_range_low_interrupt_threshold(v)
    \/ \E v \in {200} : Counted /\ set_range_high_interrupt_threshold(v)
    \/ \E v \in {AmbientInterruptMode.Disabled} : Counted /\ set_ambient_interrupt_mode(v)
    \/ \E v \in {10} : Counted /\ set_ambient_low_interrupt_threshold(v)
    \/ \E v \in {1000} : Counted /\ set_ambient_high_interrupt_threshold(v)
    \/ \E v \in {48} : Counted /\ set_i2c_address(v)

SpecConfig == InitConfig /\ [][NextConfig]_vars

(***************************************************************************)
(* Device and register decoding (register.rs, not among the sources)       *)
(***************************************************************************)
\* SysInterruptClearCode: one bit per interrupt source.
SysInterruptClearCode == [Range |-> 1, Ambient |-> 2, Error |-> 4]

\* The RESULT__INTERRUPT_STATUS_GPIO byte the device reports: the range event in
\* bits 0..2 and the ambient event in bits 3..5 (new sample ready = 4).
InterruptStatusByte ==
    (IF rangeEvt THEN 4 ELSE 0) + (IF ambEvt THEN 32 ELSE 0)

\* ResultInterruptStatusGpioCode::has_status(NoRangeEvents | NoAmbientEvents, val)
has_status(code, register_val) ==
    IF code = "NoRangeEvents"
    THEN register_val % 8 = 0
    ELSE (register_val \div 8) % 8 = 0

\* The raw bytes RangeStatusErrorCode / AmbientStatusErrorCode map (the error
\* code is the upper nibble, 0 = NoError); every other byte is unmapped.
RangeStatusMapped == {16 * k : k \in (0 .. 8) \cup (11 .. 15)}
AmbientStatusMapped == {16 * k : k \in 0 .. 2}

\* XStatusErrorCode::try_from(status): the mapped code, or -1 for Err(_)
status_try_from(channel, st) ==
    IF st \in (IF channel = "Range" THEN RangeStatusMapped ELSE AmbientStatusMapped)
    THEN st
    ELSE -1

\* The device raises a range / an ambient event: the latch is set until cleared.
DeviceRangeEvent ==
    /\ ~rangeEvt
    /\ rangeEvt' = TRUE
    /\ UNCHANGED <<config, result, lastCall, ncalls, scalerReg, pc, op, c, status, busLog, ambEvt>>

DeviceAmbientEvent ==
    /\ ~ambEvt
    /\ ambEvt' = TRUE
    /\ UNCHANGED <<config, result, lastCall, ncalls, scalerReg, pc, op, c, status, busLog, rangeEvt>>

(***************************************************************************)
(* Measurement acquisition engine (read_measurements.rs)                   *)
(***************************************************************************)
ReadOps ==
    { "read_range_mm_blocking", "read_range_mm",
      "read_ambient_lux_blocking", "read_ambient_lux",
      "read_ambient_blocking", "read_ambient" }

BlockingOps ==
    { "read_range_mm_blocking", "read_ambient_lux_blocking", "read_ambient_blocking" }

Channel(o) ==
    IF o \in {"read_range_mm_blocking", "read_range_mm"} THEN "Range" ELSE "Ambient"

NoEventsCode(o) ==
    IF Channel(o) = "Range" THEN "NoRangeEvents" ELSE "NoAmbientEvents"

StatusRegister(o) ==
    IF Channel(o) = "Range" THEN "RESULT__RANGE_STATUS" ELSE "RESULT__ALS_STATUS"

ValueRegister(o) ==
    IF Channel(o) = "Range" THEN "RESULT__RANGE_VAL" ELSE "RESULT__ALS_VAL"

\* A bus transaction as logged: kind "R" or "W", the register, the value read
\* or written (0 for a failed read), and whether the bus reported success.
BusOp(kind, reg, val, ok) == <<kind, reg, val, ok>>

StatusReads == Len(SelectSeq(busLog, LAMBDA e : e[2] = "RESULT__INTERRUPT_STATUS_GPIO"))

Finish(res) ==
    /\ result' = res
    /\ pc' = "idle"

\* AMBIENT_ANALOGUE_GAIN_VALUE, times 100, indexed by gain level + 1
AmbientAnalogueGainValue100 == <<101, 128, 172, 260, 521, 1032, 2000, 4000>>

\* Mutant of convert_raw_range_to_mm: the product is taken in u8, without the
\* `as u16` casts.
convert_raw_range_to_mm_InU8(cfg, raw_range) ==
    (cfg.range_scaling * raw_range) % 256

\* self.config.range_scaling as u16 * raw_range as u16
convert_raw_range_to_mm(cfg, raw_range) ==
    (cfg.range_scaling * raw_range) % U16Mod

\* (0.32 * 100 / analogue_gain) * (raw / integration_period), in millilux
\* (fixed point, truncated)
convert_raw_ambient_to_lux(cfg, raw_ambient) ==
    ((3200000 \div AmbientAnalogueGainValue100[cfg.ambient_analogue_gain_level + 1])
        * raw_ambient) \div cfg.ambient_integration_period

\* A read operation is called: the loop counter starts at 0 and the first
\* interrupt-status read is about to be issued.
CallRead(o) ==
    /\ pc = "idle"
    /\ pc' = "poll"
    /\ op' = o
    /\ c' = 0
    /\ status' = 0
    /\ busLog' = <<>>
    /\ result' = NoResult
    /\ lastCall' = [op |-> o, arg |-> 0]
    /\ UNCHANGED <<config, ncalls, scalerReg, rangeEvt, ambEvt>>

\* c += 1 on a u16: the values the build can produce (wraps in release builds,
\* panics in debug builds: -1)
PollCounterIncrement(cc) ==
    IF cc + 1 < U16Mod THEN {cc + 1} ELSE {0, -1}

\* Mutant of NoEventOutcome: a non-blocking read polls like a blocking one.
NoEventOutcome_NonBlockingPolls(o, cc) ==
    IF cc = -1
    THEN Finish(Err("Panic", 0)) /\ c' = c
    ELSE /\ c' = cc
         /\ IF cc = config.poll_max_loop
            THEN Finish(Err("Timeout", 0))
            ELSE UNCHANGED <<pc, result>>

\* What follows an interrupt-status read that shows no event for the channel.
NoEventOutcome(o, cc) ==
    IF o \in BlockingOps
    THEN IF cc = -1
         THEN Finish(Err("Panic", 0)) /\ c' = c
         ELSE /\ c' = cc
              /\ IF cc = config.poll_max_loop
                 THEN Finish(Err("Timeout", 0))
                 ELSE UNCHANGED <<pc, result>>
    ELSE Finish(Err("ResultNotReady", 0)) /\ c' = c

\* The read of RESULT__INTERRUPT_STATUS_GPIO succeeds: the readiness test of
\* the blocking loop or of the single non-blocking check.
ReadInterruptStatus ==
    /\ pc = "poll"
    /\ StatusReads < MaxReads
    /\ busLog' = Append(busLog,
                        BusOp("R", "RESULT__INTERRUPT_STATUS_GPIO", InterruptStatusByte, TRUE))
    /\ IF has_status(NoEventsCode(op), InterruptStatusByte)
       THEN \E cc \in PollCounterIncrement(c) : NoEventOutcome(op, cc)
       ELSE /\ pc' = "result_status"
            /\ UNCHANGED <<c, result>>
    /\ UNCHANGED <<config, lastCall, ncalls, scalerReg, op, status, rangeEvt, ambEvt>>

\* A bus read fails: `?` returns the bus error.
BusReadFails(at, reg) ==
    /\ pc = at
    /\ busLog' = Append(busLog, BusOp("R", reg, 0, FALSE))
    /\ Finish(Err("BusError", 0))
    /\ UNCHANGED <<config, lastCall, ncalls, scalerReg, op, c, status, rangeEvt, ambEvt>>

\* Mutant of ReadInterruptStatusFails: the bus error is dropped and the loop
\* polls again (as wait_device_booted does).
ReadInterruptStatusFails_Retried ==
    /\ pc = "poll"
    /\ StatusReads < MaxReads
    /\ busLog' = Append(busLog, BusOp("R", "RESULT__INTERRUPT_STATUS_GPIO", 0, FALSE))
    /\ UNCHANGED <<config, result, lastCall, ncalls, scalerReg, pc, op, c, status,
                   rangeEvt, ambEvt>>

\* The read of RESULT__INTERRUPT_STATUS_GPIO fails: `?` returns the bus error.
ReadInterruptStatusFails ==
    /\ StatusReads < MaxReads
    /\ BusReadFails("poll", "RESULT__INTERRUPT_STATUS_GPIO")

\* get_*_val_and_status: the read of the result-status register.
ReadResultStatus(st) ==
    /\ pc = "result_status"
    /\ busLog' = Append(busLog, BusOp("R", StatusRegister(op), st, TRUE))
    /\ status' = st
    /\ pc' = "clear"
    /\ UNCHANGED <<config, result, lastCall, ncalls, scalerReg, op, c, rangeEvt, ambEvt>>

ReadResultStatusFails == BusReadFails("result_status", StatusRegister(op))

\* The device latches after a write of `code` to SYSTEM__INTERRUPT_CLEAR: each
\* bit of the code clears the latch of its source.
DeviceCleared(code) ==
    /\ rangeEvt' = (rangeEvt /\ BitAnd(code, SysInterruptClearCode.Range) = 0)
    /\ ambEvt' = (ambEvt /\ BitAnd(code, SysInterruptClearCode.Ambient) = 0)

\* Mutant of DecodeStatus: an unmapped status byte is taken for NoError.
DecodeStatus_UnknownIsNoError(o, st) ==
    LET error == status_try_from(Channel(o), st)
    IN  IF error # -1 /\ error # 0
        THEN Finish(Err(IF Channel(o) = "Range" THEN "RangeStatusError"
                        ELSE "AmbientStatusError", error))
        ELSE pc' = "value" /\ UNCHANGED result

\* Mutant of DecodeStatus: only the error-code nibble is looked up, so a byte
\* whose upper nibble is a mapped code is reported as that code.
DecodeStatus_NibbleLookup(o, st) ==
    LET error == status_try_from(Channel(o), st - (st % 16))
    IN  IF error = -1
        THEN Finish(Err("UnknownRegisterCode", st))
        ELSE IF error # 0
             THEN Finish(Err(IF Channel(o) = "Range" THEN "RangeStatusError"
                             ELSE "AmbientStatusError", error))
             ELSE pc' = "value" /\ UNCHANGED result

\* The decode that follows the clear: an unmapped byte, a mapped error, or on
\* to the value register.
DecodeStatus(o, st) ==
    LET error == status_try_from(Channel(o), st)
    IN  IF error = -1
        THEN Finish(Err("UnknownRegisterCode", st))
        ELSE IF error # 0
             THEN Finish(Err(IF Channel(o) = "Range" THEN "RangeStatusError"
                             ELSE "AmbientStatusError", error))
             ELSE pc' = "value" /\ UNCHANGED result

\* Mutant of ClearInterrupt: the status is decoded first and the interrupt is
\* cleared only when it is NoError.
ClearInterrupt_OnlyOnNoError ==
    /\ pc = "clear"
    /\ IF status_try_from(Channel(op), status) = 0
       THEN /\ busLog' = Append(busLog, BusOp("W", "SYSTEM__INTERRUPT_CLEAR",
                                              SysInterruptClearCode[Channel(op)], TRUE))
            /\ DeviceCleared(SysInterruptClearCode[Channel(op)])
       ELSE UNCHANGED <<busLog, rangeEvt, ambEvt>>
    /\ DecodeStatus(op, status)
    /\ UNCHANGED <<config, lastCall, ncalls, scalerReg, op, c, status>>

\* Mutant of ClearInterrupt: the error interrupt is cleared instead of the
\* channel's own.
ClearInterrupt_ErrorSource ==
    /\ pc = "clear"
    /\ busLog' = Append(busLog, BusOp("W", "SYSTEM__INTERRUPT_CLEAR",
                                      SysInterruptClearCode.Error, TRUE))
    /\ DeviceCleared(SysInterruptClearCode.Error)
    /\ DecodeStatus(op, status)
    /\ UNCHANGED <<config, lastCall, ncalls, scalerReg, op, c, status>>

\* Mutant of ClearInterrupt: every interrupt source is cleared at once (the
\* code of clear_all_interrupts_direct).
ClearInterrupt_AllSources ==
    /\ pc = "clear"
    /\ LET code == BitOr(SysInterruptClearCode.Range,
                         BitOr(SysInterruptClearCode.Ambient, SysInterruptClearCode.Error))
       IN  /\ busLog' = Append(busLog, BusOp("W", "SYSTEM__INTERRUPT_CLEAR", code, TRUE))
           /\ DeviceCleared(code)
    /\ DecodeStatus(op, status)
    /\ UNCHANGED <<config, lastCall, ncalls, scalerReg, op, c, status>>

\* get_*_val_and_status: clear_*_interrupt_direct succeeds, then the status
\* byte is decoded.
ClearInterrupt ==
    /\ pc = "clear"
    /\ busLog' = Append(busLog, BusOp("W", "SYSTEM__INTERRUPT_CLEAR",
                                      SysInterruptClearCode[Channel(op)], TRUE))
    /\ DeviceCleared(SysInterruptClearCode[Channel(op)])
    /\ DecodeStatus(op, status)
    /\ UNCHANGED <<config, lastCall, ncalls, scalerReg, op, c, status>>

\* The clear write fails: the bus error is returned; whether the device saw the
\* write is not known.
ClearInterruptFails ==
    /\ pc = "clear"
    /\ busLog' = Append(busLog, BusOp("W", "SYSTEM__INTERRUPT_CLEAR",
                                      SysInterruptClearCode[Channel(op)], FALSE))
    /\ \/ DeviceCleared(SysInterruptClearCode[Channel(op)])
       \/ UNCHANGED <<rangeEvt, ambEvt>>
    /\ Finish(Err("BusError", 0))
    /\ UNCHANGED <<config, lastCall, ncalls, scalerReg, op, c, status>>

\* The unit conversion each read operation applies to the raw value.
ConvertRaw(o, cfg, raw) ==
    IF Channel(o) = "Range"
    THEN convert_raw_range_to_mm(cfg, raw)
    ELSE IF o \in {"read_ambient_lux_blocking", "read_ambient_lux"}
         THEN convert_raw_ambient_to_lux(cfg, raw)
         ELSE raw

\* get_*_val_and_status: the read of the result value register, converted.
ReadValue(raw) ==
    /\ pc = "value"
    /\ busLog' = Append(busLog, BusOp("R", ValueRegister(op), raw, TRUE))
    /\ Finish(Ok(ConvertRaw(op, config, raw)))
    /\ UNCHANGED <<config, lastCall, ncalls, scalerReg, op, c, status, rangeEvt, ambEvt>>

ReadValueFails == BusReadFails("value", ValueRegister(op))

(***************************************************************************)
(* Device status operations (device_status.rs)                             *)
(***************************************************************************)
\* Mutant of change_i2c_address_invalid: `<=` for `<` at the lower bound.
change_i2c_address_invalid_OffByOne(new_address) ==
    new_address <= 8 \/ new_address > 119

change_i2c_address_invalid(new_address) ==
    new_address < 8 \/ new_address > 119

\* change_i2c_address_direct up to its bus write.
CallChangeI2cAddress(new_address) ==
    /\ pc = "idle"
    /\ op' = "change_i2c_address"
    /\ lastCall' = [op |-> "change_i2c_address", arg |-> new_address]
    /\ c' = 0
    /\ status' = 0
    /\ busLog' = <<>>
    /\ IF change_i2c_address_invalid(new_address)
       THEN Finish(Err("InvalidAddress", new_address))
       ELSE pc' = "address_write" /\ result' = NoResult
    /\ UNCHANGED <<config, ncalls, scalerReg, rangeEvt, ambEvt>>

\* The write of I2C_SLAVE__DEVICE_ADDRESS succeeds; the new address is stored.
WriteI2cAddress ==
    /\ pc = "address_write"
    /\ busLog' = Append(busLog, BusOp("W", "I2C_SLAVE__DEVICE_ADDRESS", lastCall.arg, TRUE))
    /\ config' = [config EXCEPT !.address = lastCall.arg]
    /\ Finish(Ok(0))
    /\ UNCHANGED <<lastCall, ncalls, scalerReg, op, c, status, rangeEvt, ambEvt>>

\* The write fails: `?` returns before the store.
WriteI2cAddressFails ==
    /\ pc = "address_write"
    /\ busLog' = Append(busLog, BusOp("W", "I2C_SLAVE__DEVICE_ADDRESS", lastCall.arg, FALSE))
    /\ Finish(Err("BusError", 0))
    /\ UNCHANGED <<config, lastCall, ncalls, scalerReg, op, c, status, rangeEvt, ambEvt>>

(***************************************************************************)
(* Initialization sequencer (init.rs, device_status.rs)                    *)
(***************************************************************************)
\* Lookup tables and bit constants of register.rs (not among the sources),
\* indexed from 1: RANGE_SCALAR_CODE[scaling + 1], ..GAIN_CODE[level + 1].
RANGE_SCALAR_CODE == <<0, 253, 127, 84>>
AMBIENT_ANALOGUE_GAIN_CODE == <<70, 69, 68, 67, 66, 65, 64, 71>>
SysModeGpio1Polarity == [ActiveLow |-> 0, ActiveHigh |-> 32]
SysModeGpio1Select == [Off |-> 0, InterruptOutput |-> 16]

\* const DEFAULT_CROSSTALK_VALID_HEIGHT: u8 = 20
DEFAULT_CROSSTALK_VALID_HEIGHT == 20

\* A bus transaction a handler issues next: <<kind, register, value>>; the
\* value of a read is what the device returns.
Write(reg, val) == <<"W", reg, val>>
Read(reg) == <<"R", reg, 0>>

\* init_hardware: the "mandatory private registers" of AN4545, by address.
PrivateRegisters ==
    <<
       Write("0x207", 1), Write("0x208", 1), Write("0x096", 0),
       Write("0x097", 253), Write("0x0E3", 1), Write("0x0E4", 3),
       Write("0x0E5", 2), Write("0x0E6", 1), Write("0x0E7", 3),
       Write("0x0F5", 2), Write("0x0D9", 5), Write("0x0DB", 206),
       Write("0x0DC", 3), Write("0x0DD", 248), Write("0x09F", 0),
       Write("0x0A3", 60), Write("0x0B7", 0), Write("0x0BB", 60),
       Write("0x0B2", 9), Write("0x0CA", 9), Write("0x198", 1),
       Write("0x1B0", 23), Write("0x1AD", 0), Write("0x0FF", 5),
       Write("0x100", 5), Write("0x199", 5), Write("0x1A6", 27),
       Write("0x1AC", 62), Write("0x1A7", 31), Write("0x030", 0)
    >>

\* Mutant of set_range_scaling: the early-convergence bit is OR-ed in without
\* masking the previous bit 0 out.
set_range_scaling_NoMask(cfg, new_scaling, rce) ==
    LET scaling == new_scaling
        is_scaling_one == IF scaling = 1 THEN 1 ELSE 0
    IN  << Write("RANGE_SCALER", RANGE_SCALAR_CODE[scaling + 1]),
           Write("SYSRANGE__PART_TO_PART_RANGE_OFFSET", cfg.ptp_offset \div scaling),
           Write("SYSRANGE__CROSSTALK_VALID_HEIGHT",
                 DEFAULT_CROSSTALK_VALID_HEIGHT \div scaling),
           Read("SYSRANGE__RANGE_CHECK_ENABLES"),
           Write("SYSRANGE__RANGE_CHECK_ENABLES", BitOr(rce, is_scaling_one)) >>

\* set_range_scaling(new_scaling), `rce` being what the read of
\* SYSRANGE__RANGE_CHECK_ENABLES returned.
set_range_scaling(cfg, new_scaling, rce) ==
    LET scaling == new_scaling
        is_scaling_one == IF scaling = 1 THEN 1 ELSE 0
    IN  << Write("RANGE_SCALER", RANGE_SCALAR_CODE[scaling + 1]),
           Write("SYSRANGE__PART_TO_PART_RANGE_OFFSET", cfg.ptp_offset \div scaling),
           Write("SYSRANGE__CROSSTALK_VALID_HEIGHT",
                 DEFAULT_CROSSTALK_VALID_HEIGHT \div scaling),
           Read("SYSRANGE__RANGE_CHECK_ENABLES"),
           Write("SYSRANGE__RANGE_CHECK_ENABLES", BitOr(BitAnd(rce, 254), is_scaling_one)) >>

\* Mutant of set_interrupts: GPIO1 is made an interrupt output by the range
\* mode alone.
set_interrupts_RangeModeOnly(cfg) ==
    LET interrupt_val == BitOr(cfg.range_interrupt_mode, cfg.ambient_interrupt_mode)
    IN  << Write("SYSTEM__INTERRUPT_CONFIG_GPIO", interrupt_val),
           IF cfg.range_interrupt_mode # 0
           THEN Write("SYSTEM__MODE_GPIO1",
                      BitOr(SysModeGpio1Polarity.ActiveHigh,
                            SysModeGpio1Select.InterruptOutput))
           ELSE Write("SYSTEM__MODE_GPIO1",
                      BitOr(SysModeGpio1Polarity.ActiveHigh, SysModeGpio1Select.Off)),
           Write("SYSRANGE__THRESH_HIGH", cfg.range_high_interrupt_threshold),
           Write("SYSRANGE__THRESH_LOW", cfg.range_low_interrupt_threshold),
           Write("SYSALS__THRESH_HIGH", cfg.ambient_high_interrupt_threshold),
           Write("SYSALS__THRESH_LOW", cfg.ambient_low_interrupt_threshold) >>

set_interrupts(cfg) ==
    LET interrupt_val == BitOr(cfg.range_interrupt_mode, cfg.ambient_interrupt_mode)
    IN  << Write("SYSTEM__INTERRUPT_CONFIG_GPIO", interrupt_val),
           IF interrupt_val # 0
           THEN Write("SYSTEM__MODE_GPIO1",
                      BitOr(SysModeGpio1Polarity.ActiveHigh,
                            SysModeGpio1Select.InterruptOutput))
           ELSE Write("SYSTEM__MODE_GPIO1",
                      BitOr(SysModeGpio1Polarity.ActiveHigh, SysModeGpio1Select.Off)),
           Write("SYSRANGE__THRESH_HIGH", cfg.range_high_interrupt_threshold),
           Write("SYSRANGE__THRESH_LOW", cfg.range_low_interrupt_threshold),
           Write("SYSALS__THRESH_HIGH", cfg.ambient_high_interrupt_threshold),
           Write("SYSALS__THRESH_LOW", cfg.ambient_low_interrupt_threshold) >>

\* Mutant of set_configuration: range scaling is applied with the default
\* scaler instead of the configured one.
set_configuration_DefaultScaler(cfg, rce) ==
    << Write("READOUT__AVERAGING_SAMPLE_PERIOD", cfg.readout_averaging_period_multiplier),
       Write("SYSALS__ANALOGUE_GAIN",
             AMBIENT_ANALOGUE_GAIN_CODE[cfg.ambient_analogue_gain_level + 1]),
       Write("FIRMWARE__RESULT_SCALER", cfg.ambient_scaling),
       Write("SYSRANGE__VHV_REPEAT_RATE", cfg.range_vhv_recalibration_rate),
       Write("SYSALS__INTEGRATION_PERIOD", SubOne(cfg.ambient_integration_period)),
       Write("SYSALS__INTERMEASUREMENT_PERIOD",
             SubOne(AsU8(cfg.ambient_inter_measurement_period \div 10))),
       Write("SYSRANGE__VHV_RECALIBRATE", 1),
       Write("SYSRANGE__INTERMEASUREMENT_PERIOD",
             SubOne(AsU8(cfg.range_inter_measurement_period \div 10))) >>
    \o set_interrupts(cfg)
    \o << Write("SYSRANGE__MAX_CONVERGENCE_TIME", cfg.range_max_convergence_time),
          Write("INTERLEAVED_MODE__ENABLE", 0) >>
    \o set_range_scaling(cfg, 1, rce)

set_configuration(cfg, rce) ==
    << Write("READOUT__AVERAGING_SAMPLE_PERIOD", cfg.readout_averaging_period_multiplier),
       Write("SYSALS__ANALOGUE_GAIN",
             AMBIENT_ANALOGUE_GAIN_CODE[cfg.ambient_analogue_gain_level + 1]),
       Write("FIRMWARE__RESULT_SCALER", cfg.ambient_scaling),
       Write("SYSRANGE__VHV_REPEAT_RATE", cfg.range_vhv_recalibration_rate),
       Write("SYSALS__INTEGRATION_PERIOD", SubOne(cfg.ambient_integration_period)),
       Write("SYSALS__INTERMEASUREMENT_PERIOD",
             SubOne(AsU8(cfg.ambient_inter_measurement_period \div 10))),
       Write("SYSRANGE__VHV_RECALIBRATE", 1),
       Write("SYSRANGE__INTERMEASUREMENT_PERIOD",
             SubOne(AsU8(cfg.range_inter_measurement_period \div 10))) >>
    \o set_interrupts(cfg)
    \o << Write("SYSRANGE__MAX_CONVERGENCE_TIME", cfg.range_max_convergence_time),
          Write("INTERLEAVED_MODE__ENABLE", 0) >>
    \o set_range_scaling(cfg, cfg.range_scaling, rce)

\* Mutant of init_hardware: the part-to-part offset is captured after the
\* private registers are loaded.
init_hardware_OffsetReadLate(cfg, rce) ==
    PrivateRegisters
    \o << Read("SYSRANGE__PART_TO_PART_RANGE_OFFSET") >>
    \o << Write("SYSTEM__FRESH_OUT_OF_RESET", 0) >>
    \o set_configuration(cfg, rce)

\* init_hardware: every bus transaction of a run, in program order.
init_hardware(cfg, rce) ==
    << Read("SYSRANGE__PART_TO_PART_RANGE_OFFSET") >>
    \o PrivateRegisters
    \o << Write("SYSTEM__FRESH_OUT_OF_RESET", 0) >>
    \o set_configuration(cfg, rce)

\* The transactions of the running call, the boot-wait reads left out: those
\* issued by init_hardware.
InitLog ==
    SelectSeq(busLog, LAMBDA e : ~(e[1] = "R" /\ e[2] = "SYSTEM__FRESH_OUT_OF_RESET"))

BootReads == Len(busLog) - Len(InitLog)

\* What the last bus transaction read (`rce` once RANGE_CHECK_ENABLES is read).
LastRead ==
    IF busLog # <<>> /\ busLog[Len(busLog)][1] = "R"
    THEN busLog[Len(busLog)][3]
    ELSE 0

\* The transaction init_hardware issues next, and whether it is the last one.
InitProgram == init_hardware(config, LastRead)
Planned == InitProgram[Len(InitLog) + 1]
PlannedIsLast == Len(InitLog) + 1 = Len(InitProgram)

\* The value an overflowed `- 1` wraps to: u16 for the integration period,
\* u8 for the other registers.
Wrapped(reg) == IF reg = "SYSALS__INTEGRATION_PERIOD" THEN U16Mod - 1 ELSE 255

\* The device's RANGE_SCALER (0x096 high byte, 0x097 low byte) after a write.
DeviceWritten(reg, val) ==
    scalerReg' = IF reg = "RANGE_SCALER" THEN val
                 ELSE IF reg = "0x096" THEN val * 256 + (scalerReg % 256)
                 ELSE IF reg = "0x097" THEN (scalerReg \div 256) * 256 + val
                 ELSE scalerReg

\* power_on_and_init_direct up to wait_device_booted: x_shutdown_pin.set_high()
CallPowerOnAndInit(pin_ok) ==
    /\ pc = "idle"
    /\ op' = "power_on_and_init"
    /\ lastCall' = [op |-> "power_on_and_init", arg |-> 0]
    /\ c' = 0
    /\ status' = 0
    /\ busLog' = <<>>
    /\ IF pin_ok
       THEN pc' = "wait_device_booted" /\ result' = NoResult
       ELSE Finish(Err("GpioPinError", 0))
    /\ UNCHANGED <<config, ncalls, scalerReg, rangeEvt, ambEvt>>

\* wait_device_booted: a read of SYSTEM__FRESH_OUT_OF_RESET succeeds; the loop
\* is left when it returns 0x01.
ReadFreshOutOfReset(v) ==
    /\ pc = "wait_device_booted"
    /\ BootReads < MaxBootReads
    /\ busLog' = Append(busLog, BusOp("R", "SYSTEM__FRESH_OUT_OF_RESET", v, TRUE))
    /\ pc' = IF v = 1 THEN "init_hardware" ELSE pc
    /\ UNCHANGED <<config, result, lastCall, ncalls, scalerReg, op, c, status,
                   rangeEvt, ambEvt>>

\* Mutant of ReadFreshOutOfResetFails: the error leaves the loop through `?`
\* and is returned as BusError (as init_hardware does).
ReadFreshOutOfResetFails_Surfaced ==
    /\ pc = "wait_device_booted"
    /\ BootReads < MaxBootReads
    /\ busLog' = Append(busLog, BusOp("R", "SYSTEM__FRESH_OUT_OF_RESET", 0, FALSE))
    /\ Finish(Err("BusError", 0))
    /\ UNCHANGED <<config, lastCall, ncalls, scalerReg, op, c, status, rangeEvt, ambEvt>>

\* wait_device_booted: the read fails; `Err(_) => ()` and the loop goes on.
ReadFreshOutOfResetFails ==
    /\ pc = "wait_device_booted"
    /\ BootReads < MaxBootReads
    /\ busLog' = Append(busLog, BusOp("R", "SYSTEM__FRESH_OUT_OF_RESET", 0, FALSE))
    /\ UNCHANGED <<config, result, lastCall, ncalls, scalerReg, pc, op, c, status,
                   rangeEvt, ambEvt>>

\* init_hardware: the read of SYSRANGE__PART_TO_PART_RANGE_OFFSET succeeds and
\* is stored in config.ptp_offset.
ReadPartToPartOffset(v) ==
    /\ pc = "init_hardware"
    /\ Planned = Read("SYSRANGE__PART_TO_PART_RANGE_OFFSET")
    /\ busLog' = Append(busLog, BusOp("R", Planned[2], v, TRUE))
    /\ config' = [config EXCEPT !.ptp_offset = v]
    /\ UNCHANGED <<result, lastCall, ncalls, scalerReg, pc, op, c, status,
                   rangeEvt, ambEvt>>

\* set_range_scaling: the read of SYSRANGE__RANGE_CHECK_ENABLES succeeds.
ReadRangeCheckEnables(v) ==
    /\ pc = "init_hardware"
    /\ Planned = Read("SYSRANGE__RANGE_CHECK_ENABLES")
    /\ busLog' = Append(busLog, BusOp("R", Planned[2], v, TRUE))
    /\ UNCHANGED <<config, result, lastCall, ncalls, scalerReg, pc, op, c, status,
                   rangeEvt, ambEvt>>

\* A register write `t` of init_hardware succeeds with the value `val`; Ok(())
\* after the last one.
IssueWrite(t, val) ==
    /\ busLog' = Append(busLog, BusOp("W", t[2], val, TRUE))
    /\ DeviceWritten(t[2], val)
    /\ IF PlannedIsLast THEN Finish(Ok(0)) ELSE UNCHANGED <<pc, result>>

\* init_hardware, set_configuration, set_interrupts, set_range_scaling: the
\* next register write; a `- 1` that overflowed panics or wraps, by the build.
InitWrite ==
    /\ pc = "init_hardware"
    /\ LET t == Planned
       IN  /\ t[1] = "W"
           /\ IF t[3] = Overflow
              THEN \/ Finish(Err("Panic", 0)) /\ UNCHANGED <<busLog, scalerReg>>
                   \/ IssueWrite(t, Wrapped(t[2]))
              ELSE IssueWrite(t, t[3])
    /\ UNCHANGED <<config, lastCall, ncalls, op, c, status, rangeEvt, ambEvt>>

\* Mutant of InitBusFails: the failure is ignored and the sequence goes on
\* (as wait_device_booted does).
InitBusFails_Ignored ==
    /\ pc = "init_hardware"
    /\ ~PlannedIsLast
    /\ LET t == Planned
       IN  busLog' = Append(busLog, BusOp(t[1], t[2], 0, FALSE))
    /\ UNCHANGED <<config, result, lastCall, ncalls, scalerReg, pc, op, c, status,
                   rangeEvt, ambEvt>>

\* A bus read or write of init_hardware fails: `?` returns the error, which
\* power_on_and_init_direct maps to BusError. Whether the device took a
\* failed write is not known.
InitBusFails ==
    /\ pc = "init_hardware"
    /\ LET t == Planned
           val == IF t[3] = Overflow THEN Wrapped(t[2]) ELSE t[3]
       IN  /\ busLog' = Append(busLog, BusOp(t[1], t[2], val, FALSE))
           /\ \/ t[1] = "W" /\ DeviceWritten(t[2], val)
              \/ UNCHANGED scalerReg
    /\ Finish(Err("BusError", 0))
    /\ UNCHANGED <<config, lastCall, ncalls, op, c, status, rangeEvt, ambEvt>>

\* init_hardware is about to read a register.
AwaitsRead == pc = "init_hardware" /\ Planned[1] = "R"

(***************************************************************************)
(* Specification of the driver: operations on a constructed driver         *)
(***************************************************************************)
\* The Configurations a driver is constructed with: Config::new() after
\* set_poll_max_loop and set_range_result_scaler.
DriverConfigs ==
    { [ConfigNew EXCEPT !.poll_max_loop = n, !.range_scaling = s] :
          n \in 0 .. MaxBudget, s \in {1, 3} }

InitDriver ==
    /\ config \in DriverConfigs
    /\ result = NoResult
    /\ lastCall = NoCall
    /\ ncalls = 0
    /\ DriverAtRest

NextDriver ==
    \/ \E o \in ReadOps : CallRead(o)
    \/ ReadInterruptStatus
    \/ ReadInterruptStatusFails
    \/ \E st \in {0, 16, 1} : ReadResultStatus(st)
    \/ ReadResultStatusFails
    \/ ClearInterrupt
    \/ ClearInterruptFails
    \/ \E raw \in {0, 50, 255} : ReadValue(raw)
    \/ ReadValueFails
    \/ \E a \in {7, 8, 119, 120} : CallChangeI2cAddress(a)
    \/ WriteI2cAddress
    \/ WriteI2cAddressFails
    \/ DeviceRangeEvent
    \/ DeviceAmbientEvent

SpecDriver == InitDriver /\ [][NextDriver]_vars

(***************************************************************************)
(* Specifications of single validators over their whole input range        *)
(***************************************************************************)
\* The two range timing setters, in any order and number.
NextRangeTiming ==
    \/ \E v \in (0 .. 65) \cup {255} :
           set_range_max_convergence_time(v) /\ UNCHANGED ncalls
    \/ \E v \in {10 * k : k \in 0 .. 9} \cup {15, 2550, 2560} :
           set_range_inter_measurement_period(v) /\ UNCHANGED ncalls

SpecRangeTiming == InitConfig /\ [][NextRangeTiming]_vars

\* The two scaler setters, in any order and number.
NextScaler ==
    \/ \E v \in (0 .. MaxScalerInput) \cup {255} :
           set_range_result_scaler(v) /\ UNCHANGED ncalls
    \/ \E v \in (0 .. MaxScalerInput) \cup {255} :
           set_ambient_result_scaler(v) /\ UNCHANGED ncalls

SpecScaler == InitConfig /\ [][NextScaler]_vars

\* Range fetches of a driver whose Configuration comes from Config::new() and
\* set_range_result_scaler: the setter runs before the driver is first used,
\* the value register returns any byte.
NextRangeFetch ==
    \/ \E v \in 0 .. 4 :
           op = "none" /\ set_range_result_scaler(v) /\ UNCHANGED ncalls
    \/ \E o \in {"read_range_mm_blocking", "read_range_mm"} : CallRead(o)
    \/ ReadInterruptStatus
    \/ \E st \in {0} : ReadResultStatus(st)
    \/ ClearInterrupt
    \/ \E raw \in 0 .. 255 : ReadValue(raw)
    \/ DeviceRangeEvent

SpecRangeFetch == InitConfig /\ [][NextRangeFetch]_vars

\* Fetch-and-decode on both channels, the result-status register returning any
\* byte.
NextDecode ==
    \/ \E o \in ReadOps : CallRead(o)
    \/ ReadInterruptStatus
    \/ \E st \in 0 .. 255 : ReadResultStatus(st)
    \/ ClearInterrupt
    \/ \E raw \in {0} : ReadValue(raw)
    \/ DeviceRangeEvent
    \/ DeviceAmbientEvent

SpecDecode == InitConfig /\ [][NextDecode]_vars

\* Reads of a device that has an event latched on both channels and raises no
\* further event: a latch that is clear was cleared by an earlier fetch.
InitQuietDevice ==
    /\ config \in DriverConfigs
    /\ result = NoResult
    /\ lastCall = NoCall
    /\ ncalls = 0
    /\ pc = "idle"
    /\ op = "none"
    /\ c = 0
    /\ status = 0
    /\ busLog = <<>>
    /\ rangeEvt = TRUE
    /\ ambEvt = TRUE
    /\ scalerReg = RANGE_SCALER_power_on

NextQuietDevice ==
    \/ \E o \in ReadOps : CallRead(o)
    \/ ReadInterruptStatus
    \/ ReadInterruptStatusFails
    \/ \E st \in {0, 16, 1} : ReadResultStatus(st)
    \/ ReadResultStatusFails
    \/ ClearInterrupt
    \/ ClearInterruptFails
    \/ \E raw \in {0, 50} : ReadValue(raw)
    \/ ReadValueFails

SpecQuietDevice == InitQuietDevice /\ [][NextQuietDevice]_vars

\* Initialization of a driver whose Configuration comes from Config::new()
\* and the period and range scaler setters, followed by range fetches once
\* power_on_and_init has returned Ok.
Initialized == op = "power_on_and_init" /\ pc = "idle" /\ result = Ok(0)

NextInit ==
    \/ \E v \in {1, 3} :
           op = "none" /\ set_range_result_scaler(v) /\ UNCHANGED ncalls
    \/ \E v \in {1, 256} :
           op = "none" /\ set_ambient_integration_period(v) /\ UNCHANGED ncalls
    \/ \E v \in {0, 10, 2550, 2560, 2570} :
           op = "none" /\ set_ambient_inter_measurement_period(v) /\ UNCHANGED ncalls
    \/ \E v \in {0, 60, 2550, 2560} :
           op = "none" /\ set_range_inter_measurement_period(v) /\ UNCHANGED ncalls
    \/ \E pin_ok \in BOOLEAN : op = "none" /\ CallPowerOnAndInit(pin_ok)
    \/ \E v \in {1} : ReadFreshOutOfReset(v)
    \/ \E v \in {0, 255} : ReadPartToPartOffset(v)
    \/ \E v \in {254} : ReadRangeCheckEnables(v)
    \/ InitWrite
    \/ InitBusFails
    \/ \E o \in {"read_range_mm"} :
           (Initialized \/ op \in ReadOps) /\ CallRead(o)
    \/ ReadInterruptStatus
    \/ \E st \in {0} : ReadResultStatus(st)
    \/ ClearInterrupt
    \/ \E raw \in {255} : ReadValue(raw)
    \/ DeviceRangeEvent

SpecInit == InitConfig /\ [][NextInit]_vars

\* Initialization with every range scaler the setter accepts, every captured
\* part-to-part offset and every value of the range-check-enables register
\* (all of them with the offsets 0, 200 and 255, two of them with the others),
\* on a bus that does not fail. AwaitsRead repeats the guard of the two reads
\* ahead of their quantifiers.
NextRangeScaling ==
    \/ \E v \in 0 .. 4 :
           op = "none" /\ set_range_result_scaler(v) /\ UNCHANGED ncalls
    \/ \E pin_ok \in {TRUE} : op = "none" /\ CallPowerOnAndInit(pin_ok)
    \/ \E v \in {1} : ReadFreshOutOfReset(v)
    \/ AwaitsRead /\ \E v \in 0 .. 255 : ReadPartToPartOffset(v)
    \/ AwaitsRead /\ \E v \in (IF config.ptp_offset \in {0, 200, 255}
                                 THEN 0 .. 255 ELSE {0, 255}) :
                         ReadRangeCheckEnables(v)
    \/ InitWrite

SpecRangeScaling == InitConfig /\ [][NextRangeScaling]_vars

\* Power-on and initialization of a driver whose Configuration comes from
\* Config::new() and the interrupt mode and threshold setters: every pair of
\* modes, a device that takes its time to boot, an init bus that does not fail.
RangeInterruptModes == {RangeInterruptMode[m] : m \in DOMAIN RangeInterruptMode}
AmbientInterruptModes == {AmbientInterruptMode[m] : m \in DOMAIN AmbientInterruptMode}

NextPowerOn ==
    \/ \E v \in RangeInterruptModes :
           op = "none" /\ set_range_interrupt_mode(v) /\ UNCHANGED ncalls
    \/ \E v \in AmbientInterruptModes :
           op = "none" /\ set_ambient_interrupt_mode(v) /\ UNCHANGED ncalls
    \/ \E v \in {200} :
           op = "none" /\ set_range_high_interrupt_threshold(v) /\ UNCHANGED ncalls
    \/ \E v \in {10} :
           op = "none" /\ set_range_low_interrupt_threshold(v) /\ UNCHANGED ncalls
    \/ \E v \in {1000} :
           op = "none" /\ set_ambient_high_interrupt_threshold(v) /\ UNCHANGED ncalls
    \/ \E v \in {20} :
           op = "none" /\ set_ambient_low_interrupt_threshold(v) /\ UNCHANGED ncalls
    \/ \E pin_ok \in BOOLEAN : op = "none" /\ CallPowerOnAndInit(pin_ok)
    \/ \E v \in {0, 1} : ReadFreshOutOfReset(v)
    \/ ReadFreshOutOfResetFails
    \/ \E v \in {7} : ReadPartToPartOffset(v)
    \/ \E v \in {255} : ReadRangeCheckEnables(v)
    \/ InitWrite

SpecPowerOn == InitConfig /\ [][NextPowerOn]_vars

\* Power-on of a driver built from Config::new() on a device whose
\* fresh-out-of-reset flag reads as the sentinel, as other values or not at
\* all, followed by an initialization whose bus may fail.
NextBoot ==
    \/ \E pin_ok \in BOOLEAN : op = "none" /\ CallPowerOnAndInit(pin_ok)
    \/ \E v \in {0, 1, 3, 255} : ReadFreshOutOfReset(v)
    \/ ReadFreshOutOfResetFails
    \/ \E v \in {0} : ReadPartToPartOffset(v)
    \/ \E v \in {255} : ReadRangeCheckEnables(v)
    \/ InitWrite
    \/ InitBusFails

SpecBoot == InitConfig /\ [][NextBoot]_vars

\* The four setters of the fields that index a table or divide, in any order
\* and number: every accepted value and rejected ones on both sides.
NextFieldRanges ==
    \/ \E v \in (0 .. 65) \cup {255} :
           set_range_max_convergence_time(v) /\ UNCHANGED ncalls
    \/ \E v \in (0 .. 5) \cup {255} :
           set_range_result_scaler(v) /\ UNCHANGED ncalls
    \/ \E v \in (0 .. 9) \cup {255} :
           set_ambient_analogue_gain_level(v) /\ UNCHANGED ncalls
    \/ \E v \in {0, 1, 256, 257, 65535} :
           set_ambient_integration_period(v) /\ UNCHANGED ncalls

SpecFieldRanges == InitConfig /\ [][NextFieldRanges]_vars

(***************************************************************************)
(* Claims about the Configuration                                          *)
(***************************************************************************)
InvalidValue(v) == Err("InvalidConfigurationValue", v)

\* C3: after any sequence of setter calls from Config::new(), the stored values
\* satisfy range_max_convergence_time + 5 <= 0.9 * range_inter_measurement_period,
\* and range_inter_measurement_period is a multiple of 10 that is <= 2550.
C3_RangeTimingInvariant ==
    /\ 10 * (config.range_max_convergence_time + 5)
           <= 9 * config.range_inter_measurement_period
    /\ config.range_inter_measurement_period % 10 = 0
    /\ config.range_inter_measurement_period <= 2550

\* The smallest multiple of 10, at least 10, with 1.1 * p <= 0.9 * t.
AmbientPeriodEquationMin(p) ==
    LET m == 10 * ((11 * p + 89) \div 90)
    IN  IF m < 10 THEN 10 ELSE m

\* C4: if set_ambient_inter_measurement_period(t) succeeds then immediately
\* afterwards 11 * p <= 9 * t holds for the stored integration period p and the
\* stored t, t is a multiple of 10, and the accepted minimum is the smallest
\* multiple of 10 (at least 10) that satisfies the equation.
C4_AmbientTimingEquation ==
    lastCall.op = "set_ambient_inter_measurement_period" =>
        LET p == config.ambient_integration_period
            t == lastCall.arg
        IN  /\ result.kind = "Ok" =>
                /\ config.ambient_inter_measurement_period = t
                /\ 11 * p <= 9 * t
                /\ t % 10 = 0
            /\ t < AmbientPeriodEquationMin(p) => result = InvalidValue(t)

\* The smallest multiple of 10, at least 10, that is >= (c + 5) / 0.9.
RangePeriodEquationMin(cc) ==
    LET m == 10 * ((cc + 5 + 8) \div 9)
    IN  IF m < 10 THEN 10 ELSE m

\* C5: for every stored range_max_convergence_time c in 2..63,
\* set_range_inter_measurement_period accepts m(c) = (c + 5) / 0.9 rounded up to
\* the next multiple of 10 (at least 10) and stores it, and rejects m(c) - 10
\* with InvalidConfigurationValue.
C5_RangePeriodMinimum ==
    lastCall.op = "set_range_inter_measurement_period" =>
        LET m == RangePeriodEquationMin(config.range_max_convergence_time)
        IN  /\ config.range_max_convergence_time \in 2 .. 63
            /\ lastCall.arg = m =>
                /\ result = Ok(0)
                /\ config.range_inter_measurement_period = m
            /\ lastCall.arg = m - 10 => result = InvalidValue(m - 10)

\* C5 witness: with c = 59 stored (m = 80), the value 70 has just been rejected.
C5_Witness ==
    /\ lastCall = [op |-> "set_range_inter_measurement_period", arg |-> 70]
    /\ config.range_max_convergence_time = 59
    /\ result = InvalidValue(70)

\* C6: set_ambient_inter_measurement_period rejects every value greater than
\* 2550 ms, so the stored ambient inter-measurement period never exceeds 2550 ms.
C6_AmbientPeriodMax ==
    /\ config.ambient_inter_measurement_period <= 2550
    /\ (lastCall.op = "set_ambient_inter_measurement_period" /\ lastCall.arg > 2550)
           => result = InvalidValue(lastCall.arg)

\* One step of the scaler setter `name` for `field`, valid inputs lo..hi:
\* accepted and stored, or rejected with the input and the field kept.
C7_ScalerStep(name, field, lo, hi) ==
    lastCall'.op = name =>
        IF lastCall'.arg \in lo .. hi
        THEN result' = Ok(0) /\ config'[field] = lastCall'.arg
        ELSE result' = InvalidValue(lastCall'.arg) /\ config'[field] = config[field]

\* C7: set_range_result_scaler(s) succeeds and stores exactly s when 1 <= s <= 3,
\* set_ambient_result_scaler(s) when 1 <= s <= 15; for every other s the setter
\* returns InvalidConfigurationValue(s) and the stored scaler is unchanged; in
\* every reachable Configuration the range scaler is in 1..3 and the ambient
\* scaler in 1..15.
C7_Scalers ==
    /\ config.range_scaling \in 1 .. 3
    /\ config.ambient_scaling \in 1 .. 15
    /\ [][ /\ C7_ScalerStep("set_range_result_scaler", "range_scaling", 1, 3)
           /\ C7_ScalerStep("set_ambient_result_scaler", "ambient_scaling", 1, 15)
           /\ config'.range_scaling \in 1 .. 3
           /\ config'.ambient_scaling \in 1 .. 15 ]_vars

\* C7 witness: range scaler 4 has just been rejected while 3 and 15 are stored.
C7_Witness ==
    /\ lastCall = [op |-> "set_range_result_scaler", arg |-> 4]
    /\ result = InvalidValue(4)
    /\ config.range_scaling = 3
    /\ config.ambient_scaling = 15

\* The field each setter is for.
SetterField ==
    [ set_poll_max_loop |-> "poll_max_loop",
      set_range_max_convergence_time |-> "range_max_convergence_time",
      set_range_inter_measurement_period |-> "range_inter_measurement_period",
      set_readout_averaging_period_multiplier |-> "readout_averaging_period_multiplier",
      set_vhv_recalibration_rate |-> "range_vhv_recalibration_rate",
      set_ambient_result_scaler |-> "ambient_scaling",
      set_range_result_scaler |-> "range_scaling",
      set_ambient_analogue_gain_level |-> "ambient_analogue_gain_level",
      set_ambient_integration_period |-> "ambient_integration_period",
      set_ambient_inter_measurement_period |-> "ambient_inter_measurement_period",
      set_range_interrupt_mode |-> "range_interrupt_mode",
      set_range_low_interrupt_threshold |-> "range_low_interrupt_threshold",
      set_range_high_interrupt_threshold |-> "range_high_interrupt_threshold",
      set_ambient_interrupt_mode |-> "ambient_interrupt_mode",
      set_ambient_low_interrupt_threshold |-> "ambient_low_interrupt_threshold",
      set_ambient_high_interrupt_threshold |-> "ambient_high_interrupt_threshold",
      set_i2c_address |-> "address" ]

\* The setters with no datasheet constraint.
InfallibleSetters ==
    { "set_poll_max_loop", "set_readout_averaging_period_multiplier",
      "set_vhv_recalibration_rate", "set_range_interrupt_mode",
      "set_range_low_interrupt_threshold", "set_range_high_interrupt_threshold",
      "set_ambient_interrupt_mode", "set_ambient_low_interrupt_threshold",
      "set_ambient_high_interrupt_threshold", "set_i2c_address" }

\* C8: every setter changes at most its own field: a rejected call
\* (InvalidConfigurationValue carrying the input) leaves the whole record
\* unchanged, a successful call leaves every other field unchanged, and the
\* setters for poll budget, averaging multiplier, interrupt modes, thresholds,
\* VHV recalibration rate and bus address never fail.
C8_SetterFrame ==
    [][ /\ lastCall'.op \in DOMAIN SetterField
        /\ result'.kind \in {"Ok", "InvalidConfigurationValue"}
        /\ result'.kind = "InvalidConfigurationValue" =>
              /\ config' = config
              /\ result'.val = lastCall'.arg
        /\ result'.kind = "Ok" =>
              /\ \A f \in ConfigFields \ {SetterField[lastCall'.op]} : config'[f] = config[f]
              /\ config'[SetterField[lastCall'.op]] = lastCall'.arg
        /\ lastCall'.op \in InfallibleSetters => result'.kind = "Ok" ]_vars

\* C8 witness: a rejected call on a Configuration that earlier calls changed.
C8_Witness ==
    /\ lastCall = [op |-> "set_ambient_integration_period", arg |-> 257]
    /\ result = InvalidValue(257)
    /\ config.ambient_integration_period = 17
    /\ config.address = 48

(***************************************************************************)
(* Claims about the measurement engine and the device status operations    *)
(***************************************************************************)
IsStatusRead(e) == e[1] = "R" /\ e[2] = "RESULT__INTERRUPT_STATUS_GPIO"

\* Every bus transaction of the current call so far is a successful
\* interrupt-status read that reports no event for the call's channel.
OnlyNoEventReads ==
    \A i \in 1 .. Len(busLog) :
        /\ IsStatusRead(busLog[i])
        /\ busLog[i][4]
        /\ has_status(NoEventsCode(op), busLog[i][3])

\* C1: for every poll budget N (0 included), a blocking read during which every
\* interrupt-status read reports no event for the channel returns Timeout after
\* exactly N interrupt-status reads and issues no other bus operation.
C1_TimeoutAfterExactlyN ==
    (op \in BlockingOps /\ OnlyNoEventReads) =>
        /\ Len(busLog) <= config.poll_max_loop
        /\ result.kind = "Timeout" => Len(busLog) = config.poll_max_loop
        /\ (Len(busLog) >= 1 /\ Len(busLog) = config.poll_max_loop) =>
               (pc = "idle" /\ result.kind = "Timeout")
        /\ pc = "idle" => result.kind = "Timeout"

ClearWrites == SelectSeq(busLog, LAMBDA e : e[2] = "SYSTEM__INTERRUPT_CLEAR")

\* The result-status register of the call's channel was read successfully.
StatusFetched ==
    \E i \in 1 .. Len(busLog) :
        busLog[i][1] = "R" /\ busLog[i][2] = StatusRegister(op) /\ busLog[i][4]

\* C2: in every call of a read operation, if the readiness phase ends in
\* ResultNotReady or Timeout no write to the interrupt-clear register is issued;
\* if it passes and the result-status register is read successfully, exactly
\* one interrupt-clear write, for that channel, is issued, whatever the status
\* decodes to.
C2_ClearExactlyOnce ==
    op \in ReadOps =>
        /\ Len(ClearWrites) <= 1
        /\ result.kind \in {"ResultNotReady", "Timeout"} => Len(ClearWrites) = 0
        /\ ~StatusFetched => Len(ClearWrites) = 0
        /\ (pc \in {"idle", "value"} /\ StatusFetched) =>
               /\ Len(ClearWrites) = 1
               /\ ClearWrites[1][1] = "W"
               /\ ClearWrites[1][3] =
                      (IF op \in {"read_range_mm_blocking", "read_range_mm"} THEN 1 ELSE 2)

\* C2 witness: an ambient read that returned a mapped device error after one
\* clear write.
C2_Witness ==
    /\ pc = "idle"
    /\ op = "read_ambient"
    /\ result = Err("AmbientStatusError", 16)
    /\ Len(ClearWrites) = 1

\* C9: change_i2c_address with an address outside 0x08..0x77 returns
\* InvalidAddress, issues no bus write and leaves the stored address unchanged;
\* inside 0x08..0x77 it writes the device-address register and stores the new
\* address only if that write succeeds.
C9_ChangeAddress ==
    [][ op' = "change_i2c_address" =>
          LET a == lastCall'.arg
          IN  IF a < 8 \/ a > 119
              THEN /\ pc' = "idle"
                   /\ result' = Err("InvalidAddress", a)
                   /\ busLog' = <<>>
                   /\ config' = config
              ELSE /\ pc' = "address_write" => (busLog' = <<>> /\ config' = config)
                   /\ pc' = "idle" =>
                        /\ Len(busLog') = 1
                        /\ busLog'[1][1] = "W"
                        /\ busLog'[1][2] = "I2C_SLAVE__DEVICE_ADDRESS"
                        /\ busLog'[1][3] = a
                        /\ IF busLog'[1][4]
                           THEN result' = Ok(0) /\ config'.address = a
                           ELSE result' = Err("BusError", 0) /\ config' = config
      ]_vars

\* C9 witness: after a change to 0x08 succeeded, a change to 0x77 failed on the
\* bus and 0x08 is still stored.
C9_Witness ==
    /\ pc = "idle"
    /\ lastCall = [op |-> "change_i2c_address", arg |-> 119]
    /\ result = Err("BusError", 0)
    /\ config.address = 8

\* The error a decoded status byte stands for: 0 for NoError.
DecodedError(o, st) ==
    IF Channel(o) = "Range"
    THEN IF st \in RangeStatusMapped
         THEN (IF st = 0 THEN Ok(0) ELSE Err("RangeStatusError", st))
         ELSE Err("UnknownRegisterCode", st)
    ELSE IF st \in AmbientStatusMapped
         THEN (IF st = 0 THEN Ok(0) ELSE Err("AmbientStatusError", st))
         ELSE Err("UnknownRegisterCode", st)

\* C10: in fetch-and-decode, when the decoded result-status is anything other
\* than NoError the call returns that specific error and the result value
\* register is never read in that call; the value register is read only after
\* the status read and the interrupt clear, in that order.
C10_NoValueReadOnError ==
    op \in ReadOps =>
        /\ \A i \in 1 .. Len(busLog) :
              busLog[i][2] = ValueRegister(op) =>
                /\ i >= 3
                /\ busLog[i - 2][1] = "R" /\ busLog[i - 2][2] = StatusRegister(op)
                /\ busLog[i - 2][4]
                /\ DecodedError(op, busLog[i - 2][3]) = Ok(0)
                /\ busLog[i - 1][1] = "W" /\ busLog[i - 1][2] = "SYSTEM__INTERRUPT_CLEAR"
                /\ busLog[i - 1][4]
        /\ \A i \in 1 .. Len(busLog) - 1 :
              ( /\ busLog[i][2] = StatusRegister(op) /\ busLog[i][4]
                /\ busLog[i + 1][2] = "SYSTEM__INTERRUPT_CLEAR" /\ busLog[i + 1][4]
                /\ DecodedError(op, busLog[i][3]) # Ok(0) ) =>
                    /\ pc = "idle"
                    /\ result = DecodedError(op, busLog[i][3])
                    /\ Len(busLog) = i + 1

\* C10 witness: a range read that returned UnknownRegisterCode(1) right after
\* the clear write.
C10_Witness ==
    /\ pc = "idle"
    /\ op = "read_range_mm"
    /\ result = Err("UnknownRegisterCode", 1)
    /\ Len(busLog) = 3
    /\ busLog[3][2] = "SYSTEM__INTERRUPT_CLEAR"

\* C11: a non-blocking read (read_range_mm, read_ambient, read_ambient_lux)
\* reads the interrupt-status register exactly once; if that read shows no event
\* for the channel it returns ResultNotReady having issued no other bus
\* operation, and it never returns Timeout. A blocking read never returns
\* ResultNotReady.
C11_NonBlockingChecksOnce ==
    /\ (op \in ReadOps \ BlockingOps) =>
          /\ StatusReads <= 1
          /\ pc # "poll" => (StatusReads = 1 /\ IsStatusRead(busLog[1]))
          /\ result.kind # "Timeout"
          /\ (Len(busLog) >= 1 /\ busLog[1][4]
                /\ has_status(NoEventsCode(op), busLog[1][3])) =>
                 /\ pc = "idle"
                 /\ result = Err("ResultNotReady", 0)
                 /\ Len(busLog) = 1
          /\ result.kind = "ResultNotReady" =>
                 /\ Len(busLog) = 1
                 /\ busLog[1][4]
                 /\ has_status(NoEventsCode(op), busLog[1][3])
    /\ op \in BlockingOps => result.kind # "ResultNotReady"

\* C11 witness: read_ambient_lux returned ResultNotReady after its single
\* interrupt-status read, which showed a range event but no ambient event.
C11_Witness ==
    /\ pc = "idle"
    /\ op = "read_ambient_lux"
    /\ result = Err("ResultNotReady", 0)
    /\ Len(busLog) = 1
    /\ busLog[1][3] = 4

\* C14: for every raw range r in 0..255 and every range scaler s reachable
\* through the setters, the millimetre result of a successful range fetch equals
\* r * s exactly, with no 16-bit overflow (r = 50, s = 2 gives 100).
C14_RangeMillimetres ==
    (pc = "idle" /\ op \in {"read_range_mm_blocking", "read_range_mm"}
        /\ result.kind = "Ok") =>
        LET raw == busLog[Len(busLog)][3]
        IN  /\ busLog[Len(busLog)][2] = "RESULT__RANGE_VAL"
            /\ raw \in 0 .. 255
            /\ config.range_scaling \in 1 .. 3
            /\ result.val = raw * config.range_scaling
            /\ result.val < U16Mod

\* C14 witness: raw 255 fetched with scaler 3 gave 765 mm, beyond one byte.
C14_Witness ==
    /\ pc = "idle"
    /\ op = "read_range_mm"
    /\ config.range_scaling = 3
    /\ busLog[Len(busLog)][3] = 255
    /\ result = Ok(765)

\* The status byte fetched by the current call once its clear write is done:
\* -1 before that.
DecodedByte ==
    IF Len(busLog) >= 2 /\ busLog[Len(busLog)][2] = "SYSTEM__INTERRUPT_CLEAR"
    THEN busLog[Len(busLog) - 1][3]
    ELSE -1

\* C15: for every raw status byte the decoder does not map, fetch-and-decode
\* returns UnknownRegisterCode carrying that raw byte and never RangeStatusError
\* or AmbientStatusError; for every mapped byte other than NoError it returns
\* RangeStatusError or AmbientStatusError (by channel) with that mapped code and
\* never UnknownRegisterCode.
C15_UnknownVersusMapped ==
    (op \in ReadOps /\ DecodedByte # -1) =>
        LET st == DecodedByte
            mapped == IF Channel(op) = "Range" THEN RangeStatusMapped
                      ELSE AmbientStatusMapped
        IN  /\ busLog[Len(busLog) - 1][2] = StatusRegister(op)
            /\ st \notin mapped =>
                  pc = "idle" /\ result = Err("UnknownRegisterCode", st)
            /\ (st \in mapped /\ st # 0) =>
                  /\ pc = "idle"
                  /\ result = Err(IF Channel(op) = "Range" THEN "RangeStatusError"
                                  ELSE "AmbientStatusError", st)
            /\ st = 0 => (pc = "value" /\ result = NoResult)

\* C15 witness: the range status byte 0x11, whose upper nibble is the mapped
\* code 1, came back as UnknownRegisterCode(0x11).
C15_Witness ==
    /\ pc = "idle"
    /\ op = "read_range_mm_blocking"
    /\ DecodedByte = 17
    /\ result = Err("UnknownRegisterCode", 17)

\* The event latch of the channel the current read operation is about.
ChannelLatched ==
    IF Channel(op) = "Range" THEN rangeEvt ELSE ambEvt

\* C18: after a fetch-and-decode that cleared the channel's interrupt (whether
\* it returned a value or a decoded error), if the device raises no new event
\* for that channel, the next non-blocking read of that channel returns
\* ResultNotReady instead of re-reporting the stale event: a decoded error
\* never leaves the channel's event latched. (On a device that raises no new
\* event: a finished fetch leaves the latch clear, and a non-blocking read that
\* finds it clear returns ResultNotReady after its one status read.)
C18_NoStaleEvent ==
    op \in ReadOps =>
        /\ (pc = "idle" /\ result.kind \in {"Ok", "RangeStatusError",
                                             "AmbientStatusError",
                                             "UnknownRegisterCode"}) =>
               /\ Len(ClearWrites) = 1
               /\ ~ChannelLatched
        /\ (op \notin BlockingOps /\ ~ChannelLatched /\ ClearWrites = <<>>
               /\ Len(busLog) >= 1 /\ busLog[1][4]) =>
               /\ pc = "idle"
               /\ result = Err("ResultNotReady", 0)
               /\ Len(busLog) = 1
               /\ has_status(NoEventsCode(op), busLog[1][3])

\* C18 witness: with the ambient event still latched and the range event
\* cleared by an earlier fetch, read_range_mm returned ResultNotReady.
C18_Witness ==
    /\ pc = "idle"
    /\ op = "read_range_mm"
    /\ ~rangeEvt
    /\ ambEvt
    /\ busLog = <<BusOp("R", "RESULT__INTERRUPT_STATUS_GPIO", 32, TRUE)>>
    /\ result = Err("ResultNotReady", 0)

(***************************************************************************)
(* Claims about the initialization sequencer                               *)
(***************************************************************************)
\* The order of init_hardware's bus transactions as <<kind, register, value>>,
\* -1 for a value that depends on the Configuration or the device.
C12_Order ==
    << <<"R", "SYSRANGE__PART_TO_PART_RANGE_OFFSET", -1>> >>
    \o [i \in 1 .. Len(PrivateRegisters) |->
           <<"W", PrivateRegisters[i][2], PrivateRegisters[i][3]>>]
    \o << <<"W", "SYSTEM__FRESH_OUT_OF_RESET", 0>>,
          <<"W", "READOUT__AVERAGING_SAMPLE_PERIOD", -1>>,
          <<"W", "SYSALS__ANALOGUE_GAIN", -1>>,
          <<"W", "FIRMWARE__RESULT_SCALER", -1>>,
          <<"W", "SYSRANGE__VHV_REPEAT_RATE", -1>>,
          <<"W", "SYSALS__INTEGRATION_PERIOD", -1>>,
          <<"W", "SYSALS__INTERMEASUREMENT_PERIOD", -1>>,
          <<"W", "SYSRANGE__VHV_RECALIBRATE", 1>>,
          <<"W", "SYSRANGE__INTERMEASUREMENT_PERIOD", -1>>,
          <<"W", "SYSTEM__INTERRUPT_CONFIG_GPIO", -1>>,
          <<"W", "SYSTEM__MODE_GPIO1", -1>>,
          <<"W", "SYSRANGE__THRESH_HIGH", -1>>,
          <<"W", "SYSRANGE__THRESH_LOW", -1>>,
          <<"W", "SYSALS__THRESH_HIGH", -1>>,
          <<"W", "SYSALS__THRESH_LOW", -1>>,
          <<"W", "SYSRANGE__MAX_CONVERGENCE_TIME", -1>>,
          <<"W", "INTERLEAVED_MODE__ENABLE", 0>>,
          <<"W", "RANGE_SCALER", -1>>,
          <<"W", "SYSRANGE__PART_TO_PART_RANGE_OFFSET", -1>>,
          <<"W", "SYSRANGE__CROSSTALK_VALID_HEIGHT", -1>>,
          <<"R", "SYSRANGE__RANGE_CHECK_ENABLES", -1>>,
          <<"W", "SYSRANGE__RANGE_CHECK_ENABLES", -1>> >>

\* C12: in every run of init_hardware the part-to-part range offset register
\* is read exactly once and before any register write; then come all private
\* register pokes, the clearing of the fresh-out-of-reset flag, and the
\* Configuration in this order: averaging period, analogue gain, ambient
\* scaler, VHV recalibration rate, ambient integration period, ambient
\* inter-measurement period, forced VHV recalibration, range inter-measurement
\* period, interrupt configuration (mode, GPIO1 mode, four thresholds), range
\* max convergence time, interleaved-mode disable, range scaling last.
C12_InitOrder ==
    op = "power_on_and_init" =>
        /\ Len(InitLog) <= Len(C12_Order)
        /\ \A i \in 1 .. Len(InitLog) :
              /\ InitLog[i][1] = C12_Order[i][1]
              /\ InitLog[i][2] = C12_Order[i][2]
              /\ C12_Order[i][3] # -1 => InitLog[i][3] = C12_Order[i][3]
              /\ (InitLog[i][1] = "R"
                    /\ InitLog[i][2] = "SYSRANGE__PART_TO_PART_RANGE_OFFSET") => i = 1
        /\ (pc = "idle" /\ result = Ok(0)) =>
              /\ Len(InitLog) = Len(C12_Order)
              /\ \A i \in 1 .. Len(InitLog) : InitLog[i][4]

\* C12 witness: a run of init_hardware that went through all its 53 bus
\* transactions with the range scaler 3.
C12_Witness ==
    /\ Initialized
    /\ Len(InitLog) = 53
    /\ config.range_scaling = 3
    /\ InitLog[1][2] = "SYSRANGE__PART_TO_PART_RANGE_OFFSET"
    /\ InitLog[53][2] = "SYSRANGE__RANGE_CHECK_ENABLES"

\* C13: if any bus read or write fails during init_hardware (private register
\* load or configuration), no further bus operation is issued in that run,
\* power_on_and_init returns BusError wrapping that failure, and no write is
\* issued to undo the registers already written.
C13_InitAbortsOnBusError ==
    op = "power_on_and_init" =>
        /\ \A i \in 1 .. Len(InitLog) :
              ~InitLog[i][4] =>
                /\ i = Len(InitLog)
                /\ busLog[Len(busLog)] = InitLog[i]
                /\ pc = "idle"
                /\ result = Err("BusError", 0)
        /\ result.kind = "BusError" =>
              /\ pc = "idle"
              /\ Len(InitLog) >= 1
              /\ ~InitLog[Len(InitLog)][4]

\* C13 witness: the write of the range inter-measurement period, the 40th
\* transaction of init_hardware, failed after 39 successful ones.
C13_Witness ==
    /\ op = "power_on_and_init"
    /\ pc = "idle"
    /\ result = Err("BusError", 0)
    /\ Len(InitLog) = 40
    /\ InitLog[40][2] = "SYSRANGE__INTERMEASUREMENT_PERIOD"
    /\ ~InitLog[40][4]
    /\ InitLog[39][4]

\* The writes of the hardware scaling register by the current run of
\* init_hardware.
ScalerWrites == SelectSeq(InitLog, LAMBDA e : e[1] = "W" /\ e[2] = "RANGE_SCALER")

\* C16: range scaling recomputation runs after every change of the range
\* scaler and exactly once per initialization: at every range fetch following
\* a successful initialization, the scaler used to convert the raw range to
\* millimetres equals the scaler whose code was last written to the hardware
\* scaling register.
C16_ScalerConsistent ==
    /\ Initialized =>
          /\ Len(ScalerWrites) = 1
          /\ ScalerWrites[1][3] = RANGE_SCALAR_CODE[config.range_scaling + 1]
          /\ scalerReg = ScalerWrites[1][3]
    /\ (op \in {"read_range_mm_blocking", "read_range_mm"} /\ pc = "idle"
          /\ result.kind = "Ok") =>
          \E s \in 1 .. 3 :
              /\ scalerReg = RANGE_SCALAR_CODE[s + 1]
              /\ s = config.range_scaling
              /\ result.val = s * busLog[Len(busLog)][3]

\* C16 witness: after an initialization with the range scaler 3, whose code
\* 84 is in the hardware scaling register, raw 255 was fetched as 765 mm.
C16_Witness ==
    /\ op = "read_range_mm"
    /\ pc = "idle"
    /\ config.range_scaling = 3
    /\ scalerReg = 84
    /\ busLog[Len(busLog)][3] = 255
    /\ result = Ok(765)

\* C17: for every Configuration reachable from Config::new() through the
\* setters, the values written during initialization to the range and ambient
\* inter-measurement period registers equal configured_ms/10 - 1 computed
\* without 8-bit truncation or underflow (configured_ms/10 is in 1..255), and
\* the value written to the ambient integration period register equals the
\* configured value - 1 without underflow.
C17_PeriodRegisters ==
    op = "power_on_and_init" =>
        /\ result.kind # "Panic"
        /\ \A i \in 1 .. Len(InitLog) :
              LET reg == InitLog[i][2]
                  val == InitLog[i][3]
              IN  /\ reg = "SYSALS__INTERMEASUREMENT_PERIOD" =>
                        /\ config.ambient_inter_measurement_period \div 10 \in 1 .. 255
                        /\ val = config.ambient_inter_measurement_period \div 10 - 1
                  /\ reg = "SYSRANGE__INTERMEASUREMENT_PERIOD" =>
                        /\ config.range_inter_measurement_period \div 10 \in 1 .. 255
                        /\ val = config.range_inter_measurement_period \div 10 - 1
                  /\ reg = "SYSALS__INTEGRATION_PERIOD" =>
                        /\ config.ambient_integration_period >= 1
                        /\ val = config.ambient_integration_period - 1

\* Position in init_hardware's bus transactions of the first one of
\* set_range_scaling, which issues the last five.
ScalingStart == Len(C12_Order) - 4

\* The five bus transactions of set_range_scaling, as far as they are issued.
RangeScalingWrites ==
    (op = "power_on_and_init" /\ Len(InitLog) >= ScalingStart) =>
        LET k == ScalingStart
            n == Len(InitLog)
            s == config.range_scaling
            o == InitLog[1][3]
        IN  /\ s \in 1 .. 3 /\ o \in 0 .. 255
            /\ config.ptp_offset = o
            /\ InitLog[k] = <<"W", "RANGE_SCALER", RANGE_SCALAR_CODE[s + 1], TRUE>>
            /\ n >= k + 1 =>
                  InitLog[k + 1] =
                      <<"W", "SYSRANGE__PART_TO_PART_RANGE_OFFSET", o \div s, TRUE>>
            /\ n >= k + 2 =>
                  InitLog[k + 2] =
                      <<"W", "SYSRANGE__CROSSTALK_VALID_HEIGHT", 20 \div s, TRUE>>
            /\ n >= k + 3 =>
                  /\ InitLog[k + 3][1] = "R"
                  /\ InitLog[k + 3][2] = "SYSRANGE__RANGE_CHECK_ENABLES"
            /\ n >= k + 4 =>
                  LET e == InitLog[k + 3][3]
                      w == InitLog[k + 4]
                  IN  /\ w[1] = "W"
                      /\ w[2] = "SYSRANGE__RANGE_CHECK_ENABLES"
                      /\ (w[3] % 2 = 1) <=> (s = 1)
                      /\ w[3] \div 2 = e \div 2
                      /\ pc = "idle" /\ result = Ok(0)

\* C19: for every scaler s in 1..3, every captured offset o in 0..255 and every
\* prior value e of the range-check-enables register, set_range_scaling writes,
\* in this order, the table code for s to the scaling register, floor(o / s)
\* to the part-to-part offset register and floor(20 / s) to the
\* crosstalk-valid-height register, then reads range-check-enables and writes
\* back e with bit 0 set iff s = 1 and bits 1..7 unchanged; it does not modify
\* the Configuration's captured offset or scaler.
C19_RangeScaling ==
    /\ []RangeScalingWrites
    /\ [][ (pc = "init_hardware" /\ Len(InitLog) >= ScalingStart - 1)
              => config' = config ]_vars

\* C19 witness: with scaler 3, captured offset 200 and range-check-enables
\* 0xFF, set_range_scaling wrote 84, 66, 6 and 0xFE.
C19_Witness ==
    /\ Initialized
    /\ config.range_scaling = 3
    /\ config.ptp_offset = 200
    /\ InitLog[ScalingStart][3] = 84
    /\ InitLog[ScalingStart + 1][3] = 66
    /\ InitLog[ScalingStart + 2][3] = 6
    /\ InitLog[ScalingStart + 3][3] = 255
    /\ InitLog[ScalingStart + 4][3] = 254

\* C20: for every pair of range and ambient interrupt modes, the value written
\* to the interrupt-config register is the bitwise OR of the two mode
\* encodings, from which both modes can be recovered uniquely (the encodings
\* occupy disjoint bit fields); GPIO1 is configured as active-high interrupt
\* output iff at least one of the two modes is not Disabled, and as Off
\* otherwise; the range high, range low, ambient high and ambient low
\* thresholds are then written with the configured values.
C20_InterruptConfiguration ==
    /\ \A r \in RangeInterruptModes, a \in AmbientInterruptModes :
          /\ r \in 0 .. 7
          /\ a % 8 = 0 /\ a \in 0 .. 63
    /\ op = "power_on_and_init" =>
          \A i \in 1 .. Len(InitLog) :
              InitLog[i][2] = "SYSTEM__INTERRUPT_CONFIG_GPIO" =>
                LET n == Len(InitLog)
                    r == config.range_interrupt_mode
                    a == config.ambient_interrupt_mode
                    val == InitLog[i][3]
                IN  /\ InitLog[i][1] = "W"
                    /\ r \in RangeInterruptModes /\ a \in AmbientInterruptModes
                    /\ val = r + a
                    /\ val % 8 = r
                    /\ val - (val % 8) = a
                    /\ n >= i + 1 =>
                          InitLog[i + 1] =
                            <<"W", "SYSTEM__MODE_GPIO1",
                              IF r # RangeInterruptMode.Disabled
                                   \/ a # AmbientInterruptMode.Disabled
                              THEN SysModeGpio1Polarity.ActiveHigh
                                     + SysModeGpio1Select.InterruptOutput
                              ELSE SysModeGpio1Polarity.ActiveHigh
                                     + SysModeGpio1Select.Off,
                              TRUE>>
                    /\ n >= i + 2 =>
                          InitLog[i + 2] = <<"W", "SYSRANGE__THRESH_HIGH",
                                            config.range_high_interrupt_threshold, TRUE>>
                    /\ n >= i + 3 =>
                          InitLog[i + 3] = <<"W", "SYSRANGE__THRESH_LOW",
                                            config.range_low_interrupt_threshold, TRUE>>
                    /\ n >= i + 4 =>
                          InitLog[i + 4] = <<"W", "SYSALS__THRESH_HIGH",
                                            config.ambient_high_interrupt_threshold, TRUE>>
                    /\ n >= i + 5 =>
                          InitLog[i + 5] = <<"W", "SYSALS__THRESH_LOW",
                                            config.ambient_low_interrupt_threshold, TRUE>>
    /\ Initialized =>
          \E j \in 1 .. Len(InitLog) - 5 :
              InitLog[j][2] = "SYSTEM__INTERRUPT_CONFIG_GPIO"

\* C20 witness: with the range mode Disabled and the ambient mode OutOfWindow
\* the interrupt-config register got 24 and GPIO1 became an interrupt output;
\* the four thresholds 200, 10, 1000 and 20 followed.
C20_Witness ==
    /\ Initialized
    /\ config.range_interrupt_mode = RangeInterruptMode.Disabled
    /\ config.ambient_interrupt_mode = AmbientInterruptMode.OutOfWindow
    /\ \E i \in 1 .. Len(InitLog) - 5 :
          /\ InitLog[i] = <<"W", "SYSTEM__INTERRUPT_CONFIG_GPIO", 24, TRUE>>
          /\ InitLog[i + 1][3] = 48
          /\ InitLog[i + 2][3] = 200
          /\ InitLog[i + 3][3] = 10
          /\ InitLog[i + 4][3] = 1000
          /\ InitLog[i + 5][3] = 20

(***************************************************************************)
(* Claims about the boot wait                                              *)
(***************************************************************************)
\* A read of SYSTEM__FRESH_OUT_OF_RESET that returned the sentinel 0x01.
IsSentinelRead(e) == e = BusOp("R", "SYSTEM__FRESH_OUT_OF_RESET", 1, TRUE)

\* A read of SYSTEM__FRESH_OUT_OF_RESET, whatever it returned.
IsBootRead(e) == e[1] = "R" /\ e[2] = "SYSTEM__FRESH_OUT_OF_RESET"

\* The transactions of the call are boot reads without the sentinel, then one
\* read of the sentinel, then transactions of init_hardware only.
BootedBySentinel ==
    \E k \in 1 .. Len(busLog) :
        /\ IsSentinelRead(busLog[k])
        /\ \A j \in 1 .. k - 1 : IsBootRead(busLog[j]) /\ ~IsSentinelRead(busLog[j])
        /\ \A j \in k + 1 .. Len(busLog) : ~IsBootRead(busLog[j])

\* C21: power_on_and_init issues no bus operation when setting the enable
\* pin fails and returns GpioPinError; otherwise, while it waits for the boot,
\* it has returned nothing and has issued only reads of the fresh-out-of-reset
\* register, none of which returned 0x01, whether they failed or returned
\* another value; it is in init_hardware or has returned only after such a
\* read returned 0x01, and a BusError it returns is that of a transaction of
\* init_hardware, never of a boot read.
C21_BootWait ==
    op = "power_on_and_init" =>
        /\ pc \in {"idle", "wait_device_booted", "init_hardware"}
        /\ pc # "idle" => result = NoResult
        /\ pc = "idle" => result.kind \in {"GpioPinError", "BusError", "Ok"}
        /\ result.kind = "GpioPinError" => busLog = <<>>
        /\ pc = "wait_device_booted" =>
               \A j \in 1 .. Len(busLog) :
                   IsBootRead(busLog[j]) /\ ~IsSentinelRead(busLog[j])
        /\ (pc = "init_hardware" \/ (pc = "idle" /\ result.kind # "GpioPinError")) =>
               BootedBySentinel
        /\ result.kind = "BusError" =>
               /\ ~busLog[Len(busLog)][4]
               /\ ~IsBootRead(busLog[Len(busLog)])

\* Witness of C21: the first read of the boot wait failed, the second returned
\* the sentinel, and init_hardware then ran to its end.
C21_Witness ==
    /\ Initialized
    /\ Len(busLog) > 2
    /\ IsBootRead(busLog[1]) /\ ~busLog[1][4]
    /\ IsSentinelRead(busLog[2])

(***************************************************************************)
(* Claims about the polling loop of a blocking read                        *)
(***************************************************************************)
\* A successful interrupt-status read that shows the event of the call's
\* channel.
ShowsEvent(e) ==
    IsStatusRead(e) /\ e[4] /\ ~has_status(NoEventsCode(op), e[3])

\* C22: a blocking read with poll budget N returns Timeout only after at least
\* N interrupt-status reads in a row, all of them successful and showing no
\* event for the channel, and nothing else on the bus; a status read that
\* shows the event is the last status read of the call, which goes on to the
\* fetch (the result-status register is read next); a status read that fails
\* is the last transaction of the call, which returns BusError without a
\* write to the interrupt-clear register.
C22_BlockingPoll ==
    op \in BlockingOps =>
        /\ \A i \in 1 .. Len(busLog) : IsStatusRead(busLog[i]) <=> i <= StatusReads
        /\ result.kind = "Timeout" =>
               /\ OnlyNoEventReads
               /\ Len(busLog) >= config.poll_max_loop
               /\ Len(busLog) >= 1
        /\ \A i \in 1 .. Len(busLog) :
               /\ ShowsEvent(busLog[i]) =>
                      /\ i = StatusReads
                      /\ \A j \in 1 .. i - 1 :
                             busLog[j][4] /\ has_status(NoEventsCode(op), busLog[j][3])
                      /\ pc \in {"result_status", "clear", "value", "idle"}
                      /\ pc = "result_status" <=> Len(busLog) = i
                      /\ Len(busLog) > i =>
                             busLog[i + 1][1] = "R" /\ busLog[i + 1][2] = StatusRegister(op)
                      /\ result.kind # "Timeout"
               /\ (IsStatusRead(busLog[i]) /\ ~busLog[i][4]) =>
                      /\ i = Len(busLog)
                      /\ pc = "idle"
                      /\ result = Err("BusError", 0)
                      /\ Len(ClearWrites) = 0

\* Witness of C22: with budget 3, two status reads showed no event, the third
\* showed it, and the call fetched the value without another status read.
C22_Witness ==
    /\ op = "read_ambient_blocking"
    /\ config.poll_max_loop = 3
    /\ pc = "idle"
    /\ result.kind = "Ok"
    /\ Len(busLog) = 6
    /\ StatusReads = 3
    /\ ShowsEvent(busLog[3])

(***************************************************************************)
(* Claims about the two channels' interrupt latches                        *)
(***************************************************************************)
\* The device's latch of a channel.
Latched(channel) == IF channel = "Range" THEN rangeEvt ELSE ambEvt

\* The other channel.
OtherChannel(channel) == IF channel = "Range" THEN "Ambient" ELSE "Range"

\* Every write of the running call to SYSTEM__INTERRUPT_CLEAR carries the
\* clear code of the call's own channel.
OwnClearCodeOnly ==
    op \in ReadOps =>
        \A i \in 1 .. Len(ClearWrites) :
            ClearWrites[i][3] = SysInterruptClearCode[Channel(op)]

\* A step that clears a set latch is the clear write of a read of that
\* latch's own channel.
LatchClearedByOwnRead ==
    \A ch \in {"Range", "Ambient"} :
        (Latched(ch) /\ ~Latched(ch)') =>
            /\ op \in ReadOps
            /\ Channel(op) = ch
            /\ pc = "clear"
            /\ busLog' = Append(busLog, BusOp("W", "SYSTEM__INTERRUPT_CLEAR",
                                              SysInterruptClearCode[ch], busLog'[Len(busLog')][4]))

\* A successful interrupt-status read of a read whose channel is latched shows
\* the event, and the read goes on to the fetch.
PendingEventObserved ==
    (op \in ReadOps /\ pc = "poll" /\ Latched(Channel(op))
       /\ Len(busLog') = Len(busLog) + 1 /\ busLog'[Len(busLog')][4]) =>
        /\ pc' = "result_status"
        /\ ~has_status(NoEventsCode(op), busLog'[Len(busLog')][3])

\* C23: in any sequence of range and ambient reads, a read writes only its
\* own channel's clear code; a latch that is set stays set through every step
\* except the clear write of a read of its own channel, so no step of a read
\* of the other channel loses it; and a successful interrupt-status read of a
\* read whose channel is latched shows the event, the read going on to the
\* fetch.
C23_LatchesIndependent ==
    /\ []OwnClearCodeOnly
    /\ [][LatchClearedByOwnRead /\ PendingEventObserved]_vars

\* Witness of C23: the status read of a range read showed both events, and
\* after its clear write the range latch is clear and the ambient one still
\* set.
C23_Witness ==
    /\ op = "read_range_mm"
    /\ pc = "value"
    /\ Len(busLog) = 3
    /\ busLog[1] = BusOp("R", "RESULT__INTERRUPT_STATUS_GPIO", 36, TRUE)
    /\ busLog[3] = BusOp("W", "SYSTEM__INTERRUPT_CLEAR", SysInterruptClearCode.Range, TRUE)
    /\ ambEvt
    /\ ~rangeEvt

(***************************************************************************)
(* Claims about the ranges of the Configuration's fields                   *)
(***************************************************************************)
\* C24: in every Configuration reached from Config::new() by setter calls,
\* ambient_analogue_gain_level is in 0..7, ambient_integration_period in
\* 1..256, range_max_convergence_time in 2..63 and range_scaling in 1..3; so
\* the gain level and the scaling index the gain and scaler-code tables within
\* their bounds, and the divisors of offset / scaler, 20 / scaler and
\* raw / integration period are not zero.
C24_FieldsInRange ==
    /\ config.ambient_analogue_gain_level \in 0 .. 7
    /\ config.ambient_integration_period \in 1 .. 256
    /\ config.range_max_convergence_time \in 2 .. 63
    /\ config.range_scaling \in 1 .. 3
    /\ config.ambient_analogue_gain_level + 1 \in DOMAIN AMBIENT_ANALOGUE_GAIN_CODE
    /\ config.ambient_analogue_gain_level + 1 \in DOMAIN AmbientAnalogueGainValue100
    /\ config.range_scaling + 1 \in DOMAIN RANGE_SCALAR_CODE
    /\ config.range_scaling # 0
    /\ config.ambient_integration_period # 0

\* Witness of C24: the four fields stand at an end of their ranges and a call
\* with a value just outside was rejected.
C24_Witness ==
    /\ config.ambient_analogue_gain_level = 7
    /\ config.ambient_integration_period = 256
    /\ config.range_max_convergence_time = 2
    /\ config.range_scaling = 3
    /\ lastCall = [op |-> "set_ambient_analogue_gain_level", arg |-> 8]
    /\ result = InvalidValue(8)

====
